---- MODULE Spec2Model ----
(***************************************************************************)
(* A model of the CodeQL core of ghastoolkit: the query specifier parser   *)
(* (codeql/database/queries.rs), the database handler and the database     *)
(* value (codeql/database/handler.rs, codeql/database.rs) and the pack     *)
(* loader (codeql/packs/loader.rs).                                        *)
(*                                                                         *)
(* Strings that the parser inspects are sequences of one-character         *)
(* strings; an Option<T> is a record [some, val].                          *)
(***************************************************************************)
EXTENDS Naturals, Sequences, FiniteSets, TLC

VARIABLES
    \* --- query specifier round trips (queries.rs, handler.rs suite/queries)
    qpc,        \* "start" | "have" | "rendered" | "reparsed"
    qkind,      \* how qres was obtained: "parse" | "default" | "construct" | "suite"
    qin,        \* the string handed to parse (or <<>> when built directly)
    qres,       \* Result<CodeQLQueries>: the specifier under test
    qtext,      \* to_string(qres.val)
    qback,      \* Result<CodeQLQueries>: parse(qtext)
    \* --- database lifecycle (database.rs, database/handler.rs, cli.rs)
    db,         \* the CodeQLDatabase value
    codeql,     \* the CodeQL invoker configuration
    dirExists,  \* database.path() exists on disk
    cfgFile,    \* <path>/codeql-database.yml: absent, malformed or its content
    sarifFile,  \* the analysis output file exists
    runs,       \* number of CodeQL::run invocations so far
    lastArgs,   \* the argument vector of the latest CodeQL::run
    last,       \* the latest operation and its result
    \* --- pack resolution (packs/loader.rs)
    pfs,        \* the files the resolver looks at: the local path, the package cache
    ppc,        \* "start" | "resolved"
    pvalue,     \* the string handed to CodeQLPack::try_from
    pres,       \* Result<CodeQLPack>
    \* --- database builder (database.rs CodeQLDatabaseBuilder)
    bpc,        \* "building" | "built"
    bld,        \* the CodeQLDatabaseBuilder value
    bgiven,     \* the name the caller handed to name(), if any
    \* --- language tokens (languages.rs)
    lpc,        \* "start" | "have" | "again"
    ltoken,     \* the token handed to CodeQLLanguage::from
    lang,       \* CodeQLLanguage::from(ltoken)
    lback,      \* CodeQLLanguage::from(lang.language())
    \* --- one invocation of the CodeQL CLI (cli.rs CodeQL::run)
    rpc,        \* "start" | "reading" | "waiting" | "done"
    rchild,     \* what the child process does
    rlines,     \* output_lines: the lines of the child's stdout read so far
    rprinted,   \* the lines printed to the parent's stdout
    rres,       \* Result<String>
    renv,       \* the environment of the parent process
    rchildenv,  \* the environment the spawned child was given
    rspawns,    \* how many children this call has spawned
    \* --- one call of the full pipeline (cli.rs CodeQL::scan)
    spc,        \* "start" | "created" | "analyzed" | "reloaded" | "done" | "failed"
    squeries,   \* the queries string handed to scan
    sevents     \* the children run and the reloads made so far, in order

qvars == <<qpc, qkind, qin, qres, qtext, qback>>

dvars == <<db, codeql, dirExists, cfgFile, sarifFile, runs, lastArgs, last>>

pvars == <<pfs, ppc, pvalue, pres>>

bvars == <<bpc, bld, bgiven>>

lvars == <<lpc, ltoken, lang, lback>>

rvars == <<rpc, rchild, rlines, rprinted, rres, renv, rchildenv, rspawns>>

svars == <<spc, squeries, sevents>>

vars == <<qpc, qkind, qin, qres, qtext, qback,
          db, codeql, dirExists, cfgFile, sarifFile, runs, lastArgs, last,
          pfs, ppc, pvalue, pres, bpc, bld, bgiven, lpc, ltoken, lang, lback,
          rpc, rchild, rlines, rprinted, rres, renv, rchildenv, rspawns,
          spc, squeries, sevents>>

-----------------------------------------------------------------------------
(* Bounds *)

\* longest string handed to parse
MaxLen == 5

\* CodeQL::run invocations followed per behaviour
MaxRuns == 2

-----------------------------------------------------------------------------
(* Strings and options *)

Alphabet == {"/", ".", "@", ":", "c", "x"}

Strings(n) == UNION {[1..k -> Alphabet] : k \in 0..n}

\* an Option holds its value in a one-element tuple
None == [some |-> FALSE, val |-> <<>>]
Some(v) == [some |-> TRUE, val |-> v]

\* str::starts_with(char)
StartsWith(s, ch) == Len(s) > 0 /\ s[1] = ch

\* index of the first occurrence of ch in s, 0 when there is none
IndexOf(s, ch) ==
    IF \E i \in 1..Len(s) : s[i] = ch
    THEN CHOOSE i \in 1..Len(s) : s[i] = ch /\ \A j \in 1..(i - 1) : s[j] # ch
    ELSE 0

\* str::split_once(char): None, or Some(<<before, after>>) around the first ch
SplitOnce(s, ch) ==
    LET i == IndexOf(s, ch)
    IN  IF i = 0 THEN None
        ELSE Some(<<SubSeq(s, 1, i - 1), SubSeq(s, i + 1, Len(s))>>)

-----------------------------------------------------------------------------
(* codeql/languages.rs *)

\* the ids of the known languages (CODEQL_LANGUAGES, tuple field 0)
CODEQL_LANGUAGES ==
    { <<"c">>, <<"c","p","p">>, <<"c","s","h","a","r","p">>, <<"g","o">>,
      <<"j","a","v","a">>, <<"j","a","v","a","s","c","r","i","p","t">>,
      <<"p","y","t","h","o","n">>, <<"r","u","b","y">>,
      <<"s","w","i","f","t">> }

-----------------------------------------------------------------------------
(* codeql/database/queries.rs *)

\* struct CodeQLQueries { scope, name, range, path }
Queries(s, n, r, p) == [scope |-> s, name |-> n, range |-> r, path |-> p]

\* CodeQLQueries::default()
DefaultQueries == Queries(None, None, None, None)

Ok(v) == [ok |-> TRUE, val |-> v, err |-> ""]
Err(e) == [ok |-> FALSE, val |-> DefaultQueries, err |-> e]

\* CodeQLQueries::language_default
language_default(language) ==
    Queries(Some(<<"c","o","d","e","q","l">>),
            Some(language \o <<"-","q","u","e","r","i","e","s">>),
            None, None)

\* index of the last occurrence of ch in s, 0 when there is none
LastIndexOf(s, ch) ==
    IF \E i \in 1..Len(s) : s[i] = ch
    THEN CHOOSE i \in 1..Len(s) : s[i] = ch /\ \A j \in (i + 1)..Len(s) : s[j] # ch
    ELSE 0

\* str::rsplit_once(char)
RSplitOnce(s, ch) ==
    LET i == LastIndexOf(s, ch)
    IN  IF i = 0 THEN None
        ELSE Some(<<SubSeq(s, 1, i - 1), SubSeq(s, i + 1, Len(s))>>)

\* ParsePack with the name cut at the last '@' (rsplit_once for split_once)
ParsePack_RSplit(scp, nm) ==
    LET at == RSplitOnce(nm, "@")
    IN  IF at.some
        THEN LET colon == SplitOnce(at.val[2], ":")
             IN  IF colon.some
                 THEN Queries(Some(scp), Some(at.val[1]),
                              Some(colon.val[1]), Some(colon.val[2]))
                 ELSE Queries(Some(scp), Some(at.val[1]), Some(at.val[2]), None)
        ELSE Queries(Some(scp), Some(nm), None, None)

\* the pack branch of parse, taken when the value holds a '/'
ParsePack(scp, nm) ==
    LET at == SplitOnce(nm, "@")
    IN  IF at.some
        THEN LET colon == SplitOnce(at.val[2], ":")
             IN  IF colon.some
                 THEN Queries(Some(scp), Some(at.val[1]),
                              Some(colon.val[1]), Some(colon.val[2]))
                 ELSE Queries(Some(scp), Some(at.val[1]), Some(at.val[2]), None)
        ELSE Queries(Some(scp), Some(nm), None, None)

\* parse rejecting every value that is no path and holds no '/'
parse_RejectBare(value) ==
    IF value = <<>>
    THEN Err("CodeQLPackError: CodeQLQueries cannot be empty")
    ELSE IF StartsWith(value, "/") \/ StartsWith(value, ".")
    THEN Ok(Queries(None, None, None, Some(value)))
    ELSE LET slash == SplitOnce(value, "/")
         IN  IF slash.some
             THEN Ok(ParsePack(slash.val[1], slash.val[2]))
             ELSE Err("CodeQLPackError: CodeQLQueries has no scope")

\* parse taking only a leading '/' (not a leading '.') for a path
parse_OnlySlash(value) ==
    IF value = <<>>
    THEN Err("CodeQLPackError: CodeQLQueries cannot be empty")
    ELSE IF StartsWith(value, "/")
    THEN Ok(Queries(None, None, None, Some(value)))
    ELSE LET slash == SplitOnce(value, "/")
         IN  IF slash.some
             THEN Ok(ParsePack(slash.val[1], slash.val[2]))
             ELSE IF value \in CODEQL_LANGUAGES
             THEN Ok(language_default(value))
             ELSE Ok(DefaultQueries)

\* CodeQLQueries::parse
parse(value) ==
    IF value = <<>>
    THEN Err("CodeQLPackError: CodeQLQueries cannot be empty")
    ELSE IF StartsWith(value, "/") \/ StartsWith(value, ".")
    THEN Ok(Queries(None, None, None, Some(value)))
    ELSE LET slash == SplitOnce(value, "/")
         IN  IF slash.some
             THEN Ok(ParsePack(slash.val[1], slash.val[2]))
             ELSE IF value \in CODEQL_LANGUAGES
             THEN Ok(language_default(value))
             ELSE Ok(DefaultQueries)

\* impl ToString for CodeQLQueries
to_string(q) ==
    LET q1 == IF q.scope.some THEN q.scope.val ELSE <<>>
        q2 == IF q.name.some THEN q1 \o <<"/">> \o q.name.val ELSE q1
        q3 == IF q.range.some THEN q2 \o <<"@">> \o q.range.val ELSE q2
    IN  IF q.path.some
        THEN IF q3 = <<>> THEN q.path.val ELSE q3 \o <<":">> \o q.path.val
        ELSE q3

\* impl From<String> for CodeQLQueries
QueriesFrom(value) ==
    LET r == parse(value) IN IF r.ok THEN r.val ELSE DefaultQueries

\* CodeQLQueries::set_path
set_path(q, path) == [q EXCEPT !.path = Some(path)]

-----------------------------------------------------------------------------
(* codeql/database/handler.rs: the named-suite shorthand *)

SecurityExtended == <<"s","e","c","u","r","i","t","y","-","e","x","t","e","n","d","e","d">>
SecurityAndQuality == <<"s","e","c","u","r","i","t","y","-","a","n","d","-","q","u","a","l","i","t","y">>
Experimental == <<"e","x","p","e","r","i","m","e","n","t","a","l">>
DefaultSuite == <<"d","e","f","a","u","l","t">>
CodeScanning == <<"c","o","d","e","-","s","c","a","n","n","i","n","g">>
SuitesDir == <<"c","o","d","e","q","l","-","s","u","i","t","e","s","/">>
ExtSE == <<"-","s","e","c","u","r","i","t","y","-","e","x","t","e","n","d","e","d",".","q","l","s">>
ExtSQ == <<"-","s","e","c","u","r","i","t","y","-","a","n","d","-","q","u","a","l","i","t","y",".","q","l","s">>
ExtEx == <<"-","e","x","p","e","r","i","m","e","n","t","a","l",".","q","l","s">>
ExtCS == <<"-","c","o","d","e","-","s","c","a","n","n","i","n","g",".","q","l","s">>

SuiteNames == {SecurityExtended, SecurityAndQuality, Experimental, DefaultSuite, CodeScanning}

\* a suite() that takes every suite name for the name of the suite file
suite_ByName(language, queries) ==
    IF queries \in SuiteNames
    THEN set_path(language_default(language),
                  SuitesDir \o language \o <<"-">> \o queries \o <<".","q","l","s">>)
    ELSE QueriesFrom(queries)

\* CodeQLDatabaseHandler::suite: the value self.queries gets; language is
\* self.database.language.language()
suite(language, queries) ==
    IF queries = SecurityExtended
    THEN set_path(language_default(language), SuitesDir \o language \o ExtSE)
    ELSE IF queries = SecurityAndQuality
    THEN set_path(language_default(language), SuitesDir \o language \o ExtSQ)
    ELSE IF queries = Experimental
    THEN set_path(language_default(language), SuitesDir \o language \o ExtEx)
    ELSE IF queries = DefaultSuite \/ queries = CodeScanning
    THEN set_path(language_default(language), SuitesDir \o language \o ExtCS)
    ELSE QueriesFrom(queries)

-----------------------------------------------------------------------------
(* codeql/languages.rs: enum CodeQLLanguage *)

Language(v) == [variant |-> v, a |-> <<>>]
Secondary(a) == [variant |-> "Secondary", a |-> a]
Custom(a) == [variant |-> "Custom", a |-> a]
LanguageNone == Language("None")

\* CodeQLLanguage::language
language(l) ==
    CASE l.variant \in {"C", "Cpp"} -> <<"c","p","p">>
      [] l.variant = "CSharp" -> <<"c","s","h","a","r","p">>
      [] l.variant = "Go" -> <<"g","o">>
      [] l.variant \in {"Java", "Kotlin"} -> <<"j","a","v","a">>
      [] l.variant \in {"JavaScript", "TypeScript"} -> <<"j","a","v","a","s","c","r","i","p","t">>
      [] l.variant = "Python" -> <<"p","y","t","h","o","n">>
      [] l.variant = "Swift" -> <<"s","w","i","f","t">>
      [] l.variant = "Ruby" -> <<"r","u","b","y">>
      [] l.variant = "Secondary" -> l.a
      [] l.variant = "Custom" -> l.a
      [] l.variant = "None" -> <<"n","o","n","e">>

\* CodeQLLanguage::is_secondary
is_secondary(l) == l.variant = "Secondary"

\* CodeQLLanguage::is_none
is_none(l) == l.variant = "None"

\* the strings From<&str> turns into a Secondary language
SecondaryNames == {<<"p","r","o","p","e","r","t","i","e","s">>, <<"c","s","v">>, <<"y","a","m","l">>, <<"x","m","l">>, <<"h","t","m","l">>}

-----------------------------------------------------------------------------
(* codeql/cli.rs: struct CodeQL *)

\* Vec<String>::join(sep)
RECURSIVE Join(_, _)
Join(list, sep) ==
    IF list = <<>> THEN <<>>
    ELSE IF Len(list) = 1 THEN list[1]
    ELSE list[1] \o sep \o Join(Tail(list), sep)

\* CodeQL::search_paths
search_paths(c) == Join(c.search_path, <<":">>)

\* CodeQL::add_search_path
add_search_path(c, args) ==
    IF c.search_path # <<>>
    THEN args \o <<<<"-","-","s","e","a","r","c","h","-","p","a","t","h">>, search_paths(c)>>
    ELSE args

\* CodeQL::add_additional_packs
add_additional_packs(c, args) ==
    IF c.additional_packs # <<>>
    THEN args \o <<<<"-","-","a","d","d","i","t","i","o","n","a","l","-","p","a","c","k","s">>, Join(c.additional_packs, <<",">>)>>
    ELSE args

\* CodeQL::default(): no search path, no additional packs, no token, output shown
DefaultCodeQL ==
    [search_path |-> <<>>, additional_packs |-> <<>>, token |-> None, showoutput |-> TRUE]

-----------------------------------------------------------------------------
(* codeql/languages.rs: impl From<&str> for CodeQLLanguage *)

UpperChars == <<"A","B","C","D","E","F","G","H","I","J","K","L","M","N","O","P","Q","R","S","T","U","V","W","X","Y","Z">>
LowerChars == <<"a","b","c","d","e","f","g","h","i","j","k","l","m","n","o","p","q","r","s","t","u","v","w","x","y","z">>

\* str::to_lowercase
to_lowercase(s) ==
    [i \in 1..Len(s) |->
        IF \E k \in 1..Len(UpperChars) : UpperChars[k] = s[i]
        THEN LowerChars[CHOOSE k \in 1..Len(UpperChars) : UpperChars[k] = s[i]]
        ELSE s[i]]

\* a conversion that echoes an unknown token as a custom language
LanguageFrom_Custom(s) ==
    LET l == to_lowercase(s)
    IN  CASE l = <<"c">> -> Language("C")
          [] l \in {<<"c","p","p">>, <<"c","+","+">>} -> Language("Cpp")
          [] l \in {<<"c","s","h","a","r","p">>, <<"c","#">>} -> Language("CSharp")
          [] l \in {<<"g","o">>, <<"g","o","l","a","n","g">>} -> Language("Go")
          [] l = <<"j","a","v","a">> -> Language("Java")
          [] l = <<"k","o","t","l","i","n">> -> Language("Kotlin")
          [] l \in {<<"j","a","v","a","s","c","r","i","p","t">>, <<"j","s">>} -> Language("JavaScript")
          [] l \in {<<"t","y","p","e","s","c","r","i","p","t">>, <<"t","s">>} -> Language("TypeScript")
          [] l \in {<<"p","y","t","h","o","n">>, <<"p","y">>} -> Language("Python")
          [] l = <<"s","w","i","f","t">> -> Language("Swift")
          [] l = <<"r","u","b","y">> -> Language("Ruby")
          [] l \in SecondaryNames -> Secondary(s)
          [] OTHER -> Custom(s)

\* a conversion that takes kotlin for a language of its own id
LanguageFrom_KotlinId(s) ==
    LET l == to_lowercase(s)
    IN  CASE l = <<"c">> -> Language("C")
          [] l \in {<<"c","p","p">>, <<"c","+","+">>} -> Language("Cpp")
          [] l \in {<<"c","s","h","a","r","p">>, <<"c","#">>} -> Language("CSharp")
          [] l \in {<<"g","o">>, <<"g","o","l","a","n","g">>} -> Language("Go")
          [] l = <<"j","a","v","a">> -> Language("Java")
          [] l = <<"k","o","t","l","i","n">> -> Custom(<<"k","o","t","l","i","n">>)
          [] l \in {<<"j","a","v","a","s","c","r","i","p","t">>, <<"j","s">>} -> Language("JavaScript")
          [] l \in {<<"t","y","p","e","s","c","r","i","p","t">>, <<"t","s">>} -> Language("TypeScript")
          [] l \in {<<"p","y","t","h","o","n">>, <<"p","y">>} -> Language("Python")
          [] l = <<"s","w","i","f","t">> -> Language("Swift")
          [] l = <<"r","u","b","y">> -> Language("Ruby")
          [] l \in SecondaryNames -> Secondary(s)
          [] OTHER -> LanguageNone

\* impl From<&str> for CodeQLLanguage
LanguageFrom(s) ==
    LET l == to_lowercase(s)
    IN  CASE l = <<"c">> -> Language("C")
          [] l \in {<<"c","p","p">>, <<"c","+","+">>} -> Language("Cpp")
          [] l \in {<<"c","s","h","a","r","p">>, <<"c","#">>} -> Language("CSharp")
          [] l \in {<<"g","o">>, <<"g","o","l","a","n","g">>} -> Language("Go")
          [] l = <<"j","a","v","a">> -> Language("Java")
          [] l = <<"k","o","t","l","i","n">> -> Language("Kotlin")
          [] l \in {<<"j","a","v","a","s","c","r","i","p","t">>, <<"j","s">>} -> Language("JavaScript")
          [] l \in {<<"t","y","p","e","s","c","r","i","p","t">>, <<"t","s">>} -> Language("TypeScript")
          [] l \in {<<"p","y","t","h","o","n">>, <<"p","y">>} -> Language("Python")
          [] l = <<"s","w","i","f","t">> -> Language("Swift")
          [] l = <<"r","u","b","y">> -> Language("Ruby")
          [] l \in SecondaryNames -> Secondary(s)
          [] OTHER -> LanguageNone

\* impl From<Option<String>> for CodeQLLanguage
LanguageFromOption(o) == IF o.some THEN LanguageFrom(o.val) ELSE LanguageNone

-----------------------------------------------------------------------------
(* codeql/database.rs: struct CodeQLDatabase *)

Database(n, p, l, s, r, c) ==
    [name |-> n, path |-> p, language |-> l, source |-> s,
     repository |-> r, config |-> c]

\* no database (the variables of the lifecycle are idle)
NoDatabase == Database(<<>>, <<>>, LanguageNone, None, None, None)

\* CodeQLDatabaseConfig, with the fields the database reads from it
DatabaseConfig(l, loc, meta) ==
    [source_location_prefix |-> None, primary_language |-> l,
     baseline_lines_of_code |-> loc, creation_metadata |-> meta]

\* a file on disk: absent, present with YAML that does not parse, or present
\* with the content it parses to
FileAbsent == [state |-> "absent", content |-> <<>>]
FileMalformed == [state |-> "malformed", content |-> <<>>]
FileOk(c) == [state |-> "ok", content |-> <<c>>]

\* CodeQLDatabase::validate: <path>/codeql-database.yml exists
validate(file) == file.state # "absent"

\* CodeQLDatabaseConfig::read
ConfigRead(file) ==
    CASE file.state = "absent" -> [ok |-> FALSE, err |-> "IoError", val |-> <<>>]
      [] file.state = "malformed" -> [ok |-> FALSE, err |-> "YamlError", val |-> <<>>]
      [] file.state = "ok" -> [ok |-> TRUE, err |-> "", val |-> file.content]

\* version answering "unknown" when there is nothing to read
version_Unknown(d) ==
    IF d.config.some /\ d.config.val.creation_metadata.some
    THEN d.config.val.creation_metadata.val.cli_version
    ELSE <<"u","n","k","n","o","w","n">>

\* CodeQLDatabase::version
version(d) ==
    IF d.config.some /\ d.config.val.creation_metadata.some
    THEN d.config.val.creation_metadata.val.cli_version
    ELSE <<"0",".","0",".","0">>

\* CodeQLDatabase::creation_time
creation_time(d) ==
    IF d.config.some /\ d.config.val.creation_metadata.some
    THEN Some(d.config.val.creation_metadata.val.creation_time)
    ELSE None

\* CodeQLDatabase::created_at
created_at(d) ==
    IF d.config.some /\ d.config.val.creation_metadata.some
    THEN Some(d.config.val.creation_metadata.val.creation_time)
    ELSE None

\* set_repository dropping the config
set_repository_ClearConfig(d, r) ==
    [d EXCEPT !.repository = Some(r), !.name = r.name, !.config = None]

\* CodeQLDatabase::set_repository
set_repository(d, r) == [d EXCEPT !.repository = Some(r), !.name = r.name]

\* CodeQLDatabase::lines_of_code
lines_of_code(d) ==
    IF d.config.some THEN d.config.val.baseline_lines_of_code ELSE 0

\* Result<(), GHASError>
Done == [ok |-> TRUE, err |-> "", msg |-> ""]
Fail(e, m) == [ok |-> FALSE, err |-> e, msg |-> m]

\* Result<Vec<String>, GHASError> of create_cmd and analyze_cmd
Args(a) == [ok |-> TRUE, args |-> a, err |-> "", msg |-> ""]
NoArgs(e, m) == [ok |-> FALSE, args |-> <<>>, err |-> e, msg |-> m]

\* the latest operation: its name and its result
Op(name, res) == [op |-> name, res |-> res]

\* the latest-operation record before any operation
NoOp == Op("none", Done)

-----------------------------------------------------------------------------
(* codeql/cli.rs: CodeQL::run, step by step *)

\* what a child process does: whether it can be spawned, the lines it writes
\* to stdout, whether reading stdout ends in an error instead of the end of
\* the stream, the lines it writes to the inherited stderr, its exit status
Child(spawn, stdout, broken, stderr, status) ==
    [spawn |-> spawn, stdout |-> stdout, broken |-> broken,
     stderr |-> stderr, status |-> status]

NoChild == Child(FALSE, <<>>, FALSE, <<>>, 0)

\* An environment is a set of [k, v] entries with distinct names. A name is
\* a sequence of units; the unit "xFF" stands for a byte that is not valid
\* Unicode, "uFFFD" for the replacement character.
REGISTRIES_AUTH == <<"C","O","D","E","Q","L","_","R","E","G","I","S","T","R","I","E","S","_","A","U","T","H">>

\* OsStr::to_string_lossy
to_string_lossy(k) == [i \in 1..Len(k) |-> IF k[i] = "xFF" THEN "uFFFD" ELSE k[i]]

\* HashMap::insert
EnvInsert(env, k, v) == {e \in env : e.k # k} \cup {[k |-> k, v |-> v]}

\* the map `envs` that run hands to Command::envs
run_envs(parent, token) ==
    LET collected == {[k |-> to_string_lossy(e.k), v |-> e.v] : e \in parent}
    IN  IF token.some THEN EnvInsert(collected, REGISTRIES_AUTH, token.val) ELSE collected

\* the environment of a child of Command: the parent's, overridden by envs
ChildEnv(parent, envs) ==
    {e \in parent : ~(\E x \in envs : x.k = e.k)} \cup envs

\* Result<String, GHASError>
RunOk(text) == [ok |-> TRUE, val |-> text, err |-> "", msg |-> <<>>]
RunErr(e, m) == [ok |-> FALSE, val |-> <<>>, err |-> e, msg |-> m]

\* a result that does not look at the status
run_status_AlwaysOk(status, output_lines) == RunOk(Join(output_lines, <<"\n">>))

\* the result of run once the child has been waited for
run_status(status, output_lines) ==
    IF status = 0
    THEN RunOk(Join(output_lines, <<"\n">>))
    ELSE RunErr("CodeQLError", <<"E","r","r","o","r"," ","r","u","n","n","i","n","g"," ","C","o","d","e","Q","L"," ","c","o","m","m","a","n","d">>)

-----------------------------------------------------------------------------
(* codeql/database.rs: struct CodeQLDatabaseBuilder *)

\* the segments of a path between its separators, empty ones dropped
RECURSIVE Segments(_)
Segments(p) ==
    IF p = <<>> THEN <<>>
    ELSE LET i == IndexOf(p, "/")
         IN  IF i = 0 THEN <<p>>
             ELSE IF i = 1 THEN Segments(Tail(p))
             ELSE <<SubSeq(p, 1, i - 1)>> \o Segments(SubSeq(p, i + 1, Len(p)))

\* Path::components without the root: a "." is kept only at the start
PathComponents(p) ==
    LET segs == Segments(p)
    IN  SelectSeq([i \in 1..Len(segs) |->
                      IF segs[i] = <<".">> /\ (i > 1 \/ StartsWith(p, "/"))
                      THEN <<>> ELSE segs[i]],
                  LAMBDA c : c # <<>>)

\* Path::file_name: the last component when it is a normal one
file_name(p) ==
    LET c == PathComponents(p)
    IN  IF c = <<>> THEN None
        ELSE IF c[Len(c)] \in {<<".">>, <<".", ".">>} THEN None
        ELSE Some(c[Len(c)])

\* PathBuf::push: an absolute component replaces the path
Push(p, c) ==
    IF StartsWith(c, "/") THEN c
    ELSE IF p = <<>> \/ p[Len(p)] = "/" THEN p \o c
    ELSE p \o <<"/">> \o c

\* CodeQLDatabases::default_path(): $CODEQL_DATABASES, else
\* $HOME/.codeql/databases, else /tmp/codeql
DatabasesRoot == <<"/","d","b","s">>

\* CodeQLDatabase::init(): CodeQLDatabaseBuilder::default()
DefaultBuilder ==
    [name |-> <<>>, path |-> None, language |-> LanguageNone,
     source |-> None, repository |-> None, config |-> None]

\* CodeQLDatabaseBuilder::name
builder_name(b, n) == [b EXCEPT !.name = n]

\* CodeQLDatabaseBuilder::path, for a path that is a directory when it
\* exists; file is <path>/codeql-database.yml
builder_path(b, p, exists, file) ==
    LET b1 == [b EXCEPT !.path = Some(p)]
        cfg == ConfigRead(file)
    IN  IF exists /\ cfg.ok
        THEN [b1 EXCEPT
                !.language = LanguageFrom(cfg.val[1].primary_language),
                !.source = IF cfg.val[1].source_location_prefix.some
                           THEN cfg.val[1].source_location_prefix
                           ELSE b.source]
        ELSE b1

\* CodeQLDatabaseBuilder::source
builder_source(b, s) == [b EXCEPT !.source = Some(s)]

\* CodeQLDatabaseBuilder::language
builder_language(b, token) == [b EXCEPT !.language = LanguageFrom(token)]

\* CodeQLDatabaseBuilder::repository
builder_repository(b, r) == [b EXCEPT !.name = r.name, !.repository = Some(r)]

\* CodeQLDatabaseBuilder::config
builder_config(b, c) ==
    [b EXCEPT !.language = LanguageFrom(c.primary_language), !.config = Some(c)]

\* CodeQLDatabaseBuilder::default_path
default_path(b) ==
    IF b.repository.some
    THEN Push(Push(Push(DatabasesRoot, b.repository.val.owner),
                   b.repository.val.name), language(b.language))
    ELSE IF ~is_secondary(b.language)
    THEN Push(DatabasesRoot, language(b.language) \o <<"-">> \o b.name)
    ELSE Push(DatabasesRoot, b.name)

\* Option<&str>::unwrap_or("unknown")
UnwrapOrUnknown(o) == IF o.some THEN o.val ELSE <<"u","n","k","n","o","w","n">>

\* CodeQLDatabaseBuilder::build
build(b) ==
    LET path == IF b.path.some THEN b.path.val ELSE default_path(b)
        n == IF b.name = <<>>
             THEN IF b.repository.some THEN b.repository.val.name
                  ELSE IF b.source.some THEN UnwrapOrUnknown(file_name(b.source.val))
                  ELSE UnwrapOrUnknown(file_name(path))
             ELSE b.name
    IN  Database(n, path, b.language, b.source, b.repository, b.config)

-----------------------------------------------------------------------------
(* codeql/database/handler.rs: struct CodeQLDatabaseHandler *)

\* CodeQLDatabases::default_results(): the results root
ResultsRoot == <<"/","r","e","s","u","l","t","s">>

\* CodeQLDatabaseHandler::default_results
default_results(d) ==
    IF d.repository.some
    THEN ResultsRoot \o <<"/">> \o language(d.language) \o <<"-">>
            \o d.repository.val.owner \o <<"-">> \o d.repository.val.name
            \o <<".","s","a","r","i","f">>
    ELSE ResultsRoot \o <<"/">> \o language(d.language) \o <<"-">> \o d.name
            \o <<".","s","a","r","i","f">>

\* CodeQLDatabaseHandler::new
NewHandler(d) ==
    [queries |-> language_default(language(d.language)),
     threat_models |-> <<>>,
     model_packs |-> <<>>,
     category |-> None,
     output |-> Some(default_results(d)),
     output_format |-> <<"s","a","r","i","f","-","l","a","t","e","s","t">>,
     overwrite |-> FALSE,
     summary |-> TRUE]

\* a create_cmd that always asks to overwrite
create_cmd_OverwriteAlways(d, c, h) ==
    LET a1 == <<<<"d","a","t","a","b","a","s","e">>, <<"c","r","e","a","t","e">>, <<"-","l">>, language(d.language)>>
        tms == Join(h.threat_models, <<",">>)
        mps == Join(h.model_packs, <<",">>)
        sps == search_paths(c)
    IN  IF ~d.source.some
        THEN NoArgs("CodeQLDatabaseError", "No source root provided")
        ELSE Args(
            a1 \o <<<<"-","s">>, d.source.val>>
               \o (IF tms # <<>> THEN <<<<"-","-","t","h","r","e","a","t","-","m","o","d","e","l","s">>, tms>> ELSE <<>>)
               \o (IF mps # <<>> THEN <<<<"-","-","m","o","d","e","l","-","p","a","c","k","s">>, mps>> ELSE <<>>)
               \o (IF sps # <<>> THEN <<<<"-","-","s","e","a","r","c","h","-","p","a","t","h">>, sps>> ELSE <<>>)
               \o (IF TRUE THEN <<<<"-","-","o","v","e","r","w","r","i","t","e">>>> ELSE <<>>)
               \o (IF h.summary
                   THEN <<<<"-","-","p","r","i","n","t","-","d","i","a","g","n","o","s","t","i","c","s","-","s","u","m","m","a","r","y">>, <<"-","-","p","r","i","n","t","-","m","e","t","r","i","c","s","-","s","u","m","m","a","r","y">>>>
                   ELSE <<>>)
               \o (IF h.category.some
                   THEN <<<<"-","-","s","a","r","i","f","-","c","a","t","e","g","o","r","y">>, h.category.val>> ELSE <<>>)
               \o <<d.path>>)

\* CodeQLDatabaseHandler::create_cmd
create_cmd(d, c, h) ==
    LET a1 == <<<<"d","a","t","a","b","a","s","e">>, <<"c","r","e","a","t","e">>, <<"-","l">>, language(d.language)>>
        tms == Join(h.threat_models, <<",">>)
        mps == Join(h.model_packs, <<",">>)
        sps == search_paths(c)
    IN  IF ~d.source.some
        THEN NoArgs("CodeQLDatabaseError", "No source root provided")
        ELSE Args(
            a1 \o <<<<"-","s">>, d.source.val>>
               \o (IF tms # <<>> THEN <<<<"-","-","t","h","r","e","a","t","-","m","o","d","e","l","s">>, tms>> ELSE <<>>)
               \o (IF mps # <<>> THEN <<<<"-","-","m","o","d","e","l","-","p","a","c","k","s">>, mps>> ELSE <<>>)
               \o (IF sps # <<>> THEN <<<<"-","-","s","e","a","r","c","h","-","p","a","t","h">>, sps>> ELSE <<>>)
               \o (IF h.overwrite THEN <<<<"-","-","o","v","e","r","w","r","i","t","e">>>> ELSE <<>>)
               \o (IF h.summary
                   THEN <<<<"-","-","p","r","i","n","t","-","d","i","a","g","n","o","s","t","i","c","s","-","s","u","m","m","a","r","y">>, <<"-","-","p","r","i","n","t","-","m","e","t","r","i","c","s","-","s","u","m","m","a","r","y">>>>
                   ELSE <<>>)
               \o (IF h.category.some
                   THEN <<<<"-","-","s","a","r","i","f","-","c","a","t","e","g","o","r","y">>, h.category.val>> ELSE <<>>)
               \o <<d.path>>)

\* an analyze_cmd that puts the queries before the database
analyze_cmd_QueriesFirst(d, c, h) ==
    LET sps == search_paths(c)
    IN  IF ~h.output.some
        THEN NoArgs("CodeQLDatabaseError", "No output path provided")
        ELSE Args(
            <<<<"d","a","t","a","b","a","s","e">>, <<"a","n","a","l","y","z","e">>, <<"-","-","o","u","t","p","u","t">>, h.output.val,
              <<"-","-","f","o","r","m","a","t">>, h.output_format>>
               \o (IF sps # <<>> THEN <<<<"-","-","s","e","a","r","c","h","-","p","a","t","h">>, sps>> ELSE <<>>)
               \o <<to_string(h.queries)>>
               \o <<d.path>>)

\* CodeQLDatabaseHandler::analyze_cmd; h.output is None for a path that is
\* not valid UTF-8 (to_str() fails)
analyze_cmd(d, c, h) ==
    LET sps == search_paths(c)
    IN  IF ~h.output.some
        THEN NoArgs("CodeQLDatabaseError", "No output path provided")
        ELSE Args(
            <<<<"d","a","t","a","b","a","s","e">>, <<"a","n","a","l","y","z","e">>, <<"-","-","o","u","t","p","u","t">>, h.output.val,
              <<"-","-","f","o","r","m","a","t">>, h.output_format>>
               \o (IF sps # <<>> THEN <<<<"-","-","s","e","a","r","c","h","-","p","a","t","h">>, sps>> ELSE <<>>)
               \o <<d.path>>
               \o <<to_string(h.queries)>>)

-----------------------------------------------------------------------------
(* codeql/packs: the pack value and its loader (packs/loader.rs)             *)

\* PackYaml, with the fields the loader and the pack type read
PackYaml(name, ver, library, data_extensions, tests) ==
    [name |-> name, version |-> ver, library |-> library,
     data_extensions |-> data_extensions, tests |-> tests]

\* PackYamlLock
PackYamlLock(deps) ==
    [lock_version |-> <<"1",".","0",".","0">>, dependencies |-> deps, compiled |-> FALSE]

\* a classification that asks for a library before it asks for data extensions
get_pack_type_LibraryFirst(y) ==
    IF y.library.some
    THEN IF y.library.val THEN "Library" ELSE "Queries"
    ELSE IF y.tests.some THEN "Testing"
    ELSE IF y.data_extensions.some THEN "Models"
    ELSE "Queries"

\* CodeQLPack::get_pack_type
get_pack_type(y) ==
    IF y.library.some
    THEN IF y.library.val /\ y.data_extensions.some THEN "Models"
         ELSE IF y.library.val THEN "Library"
         ELSE "Queries"
    ELSE IF y.tests.some THEN "Testing"
    ELSE IF y.data_extensions.some THEN "Models"
    ELSE "Queries"

\* struct CodeQLPack as the loader fills it; a path is the sequence of its
\* components, PathBuf::new() the empty sequence
Pack(q, path, pack, pack_type, pack_lock) ==
    [queries |-> q, path |-> path, pack |-> pack, pack_type |-> pack_type,
     pack_lock |-> pack_lock]

\* CodeQLPack::default()
DefaultPack == Pack(DefaultQueries, <<>>, None, None, None)

PackOk(pk) == [ok |-> TRUE, val |-> pk, err |-> "", msg |-> ""]
PackErr(e, m) == [ok |-> FALSE, val |-> DefaultPack, err |-> e, msg |-> m]

\* a directory as the loader sees it: whether the path exists, whether it
\* names a file (of its parent directory), and the two files looked for
Dir(exists, is_file, qlpack, lock) ==
    [exists |-> exists, is_file |-> is_file, qlpack |-> qlpack, lock |-> lock]

NoDir == Dir(FALSE, FALSE, FileAbsent, FileAbsent)

\* CodeQLPacks::codeql_packages_path(): <home>/.codeql/packages
PackagesPath == <<<<"~">>, <<".","c","o","d","e","q","l">>, <<"p","a","c","k","a","g","e","s">>>>

\* the one pack the package cache may hold versions of
CachedScope == <<"s">>
CachedName == <<"n">>

\* the version directories the cache may hold; "10" sorts before "9"
Versions == {<<"1","0">>, <<"9">>}

\* nothing on disk
NoFiles == [local |-> NoDir, cache |-> [v \in Versions |-> NoDir]]

\* the directory a path names: the local path is the only path of one
\* component, a cache directory is <packages>/<scope>/<name>/<version>
DirAt(fs, path) ==
    IF Len(path) = 1 THEN fs.local
    ELSE IF /\ Len(path) = Len(PackagesPath) + 3
            /\ SubSeq(path, 1, Len(PackagesPath)) = PackagesPath
            /\ path[Len(PackagesPath) + 1] = CachedScope
            /\ path[Len(PackagesPath) + 2] = CachedName
            /\ path[Len(PackagesPath) + 3] \in Versions
    THEN fs.cache[path[Len(PackagesPath) + 3]]
    ELSE NoDir

\* CodeQLPack::load; the path of a file is replaced by its parent, which
\* DirAt already describes
load(fs, path) ==
    LET d == DirAt(fs, path)
    IN  IF ~d.exists
        THEN PackErr("CodeQLPackError", "<path>")
        ELSE IF d.qlpack.state = "absent"
        THEN PackErr("CodeQLPackError", "qlpack.yml file does not exist")
        ELSE IF d.qlpack.state = "malformed"
        THEN PackErr("YamlError", "qlpack.yml")
        ELSE IF d.lock.state = "malformed"
        THEN PackErr("YamlError", "codeql-pack.lock.yml")
        ELSE LET y == d.qlpack.content[1]
             IN  PackOk(Pack(QueriesFrom(y.name),
                             IF d.is_file THEN path \o <<<<".",".">>>> ELSE path,
                             Some(y),
                             Some(get_pack_type(y)),
                             IF d.lock.state = "ok" THEN Some(d.lock.content[1])
                             ELSE None))

\* the order in which glob yields the entries of a directory: by name,
\* character by character
Digits == <<"0","1","2","3","4","5","6","7","8","9">>
Ord(ch) == CHOOSE i \in 1..Len(Digits) : Digits[i] = ch

RECURSIVE LexLess(_, _)
LexLess(a, b) ==
    IF b = <<>> THEN FALSE
    ELSE IF a = <<>> THEN TRUE
    ELSE IF a[1] = b[1] THEN LexLess(Tail(a), Tail(b))
    ELSE Ord(a[1]) < Ord(b[1])

\* PathBuf::join: joining the empty string adds no component
PathJoin(path, c) == IF c = <<>> THEN path ELSE path \o <<c>>

\* the patterns of a path component that match every directory name
Wildcards == {<<"*","*">>, <<"*">>}

\* glob("<packages>/<namespace>/<name>/<pattern>/qlpack.yml"): the version
\* directories whose qlpack.yml the pattern matches. A wildcard matches every
\* version, any other pattern only the directory of that name; with an empty
\* namespace and name the pattern is <packages>/**/qlpack.yml, which matches
\* the qlpack.yml of every pack in the cache
Glob(fs, namespace, name, pattern) ==
    IF \/ namespace = CachedScope /\ name = CachedName
       \/ namespace = <<>> /\ name = <<>> /\ pattern = <<"*","*">>
    THEN { v \in Versions :
             /\ fs.cache[v].exists /\ fs.cache[v].qlpack.state # "absent"
             /\ (pattern \in Wildcards \/ pattern = v) }
    ELSE {}

\* Iterator::last of the glob entries
GlobLast(entries) == CHOOSE v \in entries : \A w \in entries : ~LexLess(v, w)

\* load_package that only looks at <version>/qlpack.yml and never globs
load_package_NoGlob(fs, name, namespace, ver) ==
    LET version_num == IF ver.some THEN ver.val ELSE <<"*","*">>
        path == PathJoin(PathJoin(PathJoin(PackagesPath, namespace), name), version_num)
        d == DirAt(fs, path)
    IN  IF d.exists /\ d.qlpack.state # "absent"
        THEN load(fs, path)
        ELSE PackOk(Pack(Queries(Some(namespace), Some(name), ver, None),
                         <<>>, None, None, None))

\* CodeQLPack::load_package
load_package(fs, name, namespace, ver) ==
    LET version_num == IF ver.some THEN ver.val ELSE <<"*","*">>
        path == PathJoin(PathJoin(PathJoin(PackagesPath, namespace), name), version_num)
        d == DirAt(fs, path)
        entries == Glob(fs, namespace, name, version_num)
    IN  IF d.exists /\ d.qlpack.state # "absent"
        THEN load(fs, path)
        ELSE IF entries # {}
        THEN load(fs, PackagesPath \o <<CachedScope, CachedName, GlobLast(entries)>>)
        ELSE PackOk(Pack(Queries(Some(namespace), Some(name), ver, None),
                         <<>>, None, None, None))

\* Option<String>::unwrap_or_default
UnwrapOrDefault(o) == IF o.some THEN o.val ELSE <<>>

\* CodeQLPack::load_remote_pack
load_remote_pack(fs, remote) ==
    LET queries == QueriesFrom(remote)
        pk == load_package(fs, UnwrapOrDefault(queries.name),
                           UnwrapOrDefault(queries.scope), queries.range)
    IN  IF pk.ok THEN pk
        ELSE PackOk(Pack(queries, <<>>, None, None, None))

\* a resolver that turns to the package cache when loading the path fails
try_from_FallThrough(fs, value) ==
    IF fs.local.exists /\ load(fs, <<value>>).ok THEN load(fs, <<value>>)
    ELSE load_remote_pack(fs, value)

\* impl TryFrom<&str> for CodeQLPack: canonicalize succeeds exactly when the
\* path exists
try_from(fs, value) ==
    IF fs.local.exists THEN load(fs, <<value>>)
    ELSE load_remote_pack(fs, value)

-----------------------------------------------------------------------------
(* Each specification below exercises one part of the program; the variables  *)
(* of the other parts stay at their idle values.                             *)

QIdle ==
    /\ qpc = "idle" /\ qkind = "none" /\ qin = <<>>
    /\ qres = Err("") /\ qtext = <<>> /\ qback = Err("")

DIdle ==
    /\ db = NoDatabase /\ codeql = DefaultCodeQL /\ dirExists = FALSE
    /\ cfgFile = FileAbsent /\ sarifFile = FALSE /\ runs = 0
    /\ lastArgs = <<>> /\ last = NoOp

PIdle == pfs = NoFiles /\ ppc = "idle" /\ pvalue = <<>> /\ pres = PackErr("", "")

BIdle == bpc = "idle" /\ bld = DefaultBuilder /\ bgiven = None

LIdle == lpc = "idle" /\ ltoken = None /\ lang = LanguageNone /\ lback = LanguageNone

SIdle == spc = "idle" /\ squeries = <<>> /\ sevents = <<>>

RIdle ==
    /\ rpc = "idle" /\ rchild = NoChild /\ rlines = <<>> /\ rprinted = <<>>
    /\ rres = RunErr("", <<>>)
    /\ renv = {} /\ rchildenv = {} /\ rspawns = 0

-----------------------------------------------------------------------------
(* Specification SpecPacks: with some files on disk (under the path the      *)
(* value names, and in the package cache), a value is resolved to a pack.    *)

Manifests ==
    { PackYaml(<<"s","/","n">>, Some(<<"9">>), None, None, None),
      PackYaml(<<"s","/","n">>, None, Some(TRUE), Some(<<<<"m",".","y","m","l">>>>), None) }

Locks == { PackYamlLock(<<>>) }

QlpackFiles == {FileAbsent, FileMalformed} \cup {FileOk(y) : y \in Manifests}

LockFiles == {FileAbsent, FileMalformed} \cup {FileOk(l) : l \in Locks}

\* the directories a path may name: none, or one with any of the files
Dirs ==
    {NoDir} \cup {Dir(TRUE, f, q, l) : f \in BOOLEAN, q \in QlpackFiles, l \in LockFiles}

\* a version directory of the cache: none, or a directory with a qlpack.yml
CacheDirs ==
    {NoDir} \cup {Dir(TRUE, FALSE, q, l) :
                    q \in QlpackFiles \ {FileAbsent}, l \in LockFiles}

\* the values resolved: pack references with and without a version, cached
\* or not, a bare language and a path
PackValues == {<<"s","/","n","@","*">>, <<"s","/","n">>, <<"s","/","n","@","9">>, <<"s","/","n","@","1","0">>, <<"s","/","n","@","7">>, <<"s","/","x">>, <<"c">>, <<".","/","p">>}

PInit ==
    /\ QIdle /\ DIdle /\ BIdle /\ LIdle /\ RIdle /\ SIdle
    /\ \E l \in Dirs, c \in [Versions -> CacheDirs] : pfs = [local |-> l, cache |-> c]
    /\ ppc = "start"
    /\ pvalue = <<>>
    /\ pres = PackErr("", "")

PResolve(value) ==
    /\ ppc = "start"
    /\ ppc' = "resolved"
    /\ pvalue' = value
    /\ pres' = try_from(pfs, value)
    /\ UNCHANGED pfs
    /\ UNCHANGED <<qvars, dvars, bvars, lvars, rvars, svars>>

PNext == \E value \in PackValues : PResolve(value)

SpecPacks == PInit /\ [][PNext]_vars

-----------------------------------------------------------------------------
(* Specification SpecLoad: a pack is loaded from a path (a pack directory or *)
(* a file in it), for every shape of the manifest the pack type depends on.  *)

\* the manifests: library absent, false or true; dataExtensions absent, empty
\* or not; tests absent or present
AllManifests ==
    { PackYaml(<<"s","/","n">>, None, lib, ext, tst) :
        lib \in {None, Some(FALSE), Some(TRUE)},
        ext \in {None, Some(<<>>), Some(<<<<"m",".","y","m","l">>>>)},
        tst \in {None, Some(<<"t">>)} }

\* the directories loaded from: none, one without qlpack.yml, one with a
\* malformed one, and one for every manifest
LoadDirs ==
    {NoDir} \cup
    { Dir(TRUE, f, q, l) :
        f \in BOOLEAN,
        q \in {FileAbsent, FileMalformed} \cup {FileOk(y) : y \in AllManifests},
        l \in LockFiles }

\* the paths handed to the loader
LoadPaths == {<<".","/","p">>, <<"/","q">>}

LInit ==
    /\ QIdle /\ DIdle /\ BIdle /\ LIdle /\ RIdle /\ SIdle
    /\ \E l \in LoadDirs : pfs = [local |-> l, cache |-> [v \in Versions |-> NoDir]]
    /\ ppc = "start"
    /\ pvalue = <<>>
    /\ pres = PackErr("", "")

\* impl TryFrom<PathBuf> for CodeQLPack
LLoad(path) ==
    /\ ppc = "start"
    /\ ppc' = "loaded"
    /\ pvalue' = path
    /\ pres' = load(pfs, <<path>>)
    /\ UNCHANGED pfs
    /\ UNCHANGED <<qvars, dvars, bvars, lvars, rvars, svars>>

LNext == \E path \in LoadPaths : LLoad(path)

SpecLoad == LInit /\ [][LNext]_vars

-----------------------------------------------------------------------------
(* Specification SpecBuild: a database is described by calls of the builder  *)
(* methods, in any order and any number of times, and then built.            *)

\* the names handed to name()
BuilderNames == {<<>>, <<"x">>}

\* the one path that may exist on disk, as a directory
DiskPath == <<"/","d","/","p">>

\* the paths handed to path()
BuilderPaths == {DiskPath, <<"/","e","/">>}

\* the paths handed to source()
BuilderSources == {<<"/","s","/","q">>, <<"/","s","/",".",".">>}

\* the tokens handed to language()
BuilderLanguages == {<<"j","s">>, <<"y","a","m","l">>, <<"r","u","s","t">>}

\* the repositories handed to repository()
BuilderRepositories == {[owner |-> <<"o">>, name |-> <<"r">>]}

\* what <DiskPath>/codeql-database.yml may hold
BuilderConfigs ==
    { DatabaseConfig(<<"p","y","t","h","o","n">>, 10, None),
      [DatabaseConfig(<<"p","y","t","h","o","n">>, 10, None) EXCEPT !.source_location_prefix = Some(<<"/","w","/","c">>)] }

BInit ==
    /\ QIdle /\ PIdle /\ LIdle /\ RIdle /\ SIdle
    /\ db = NoDatabase /\ codeql = DefaultCodeQL
    /\ cfgFile \in {FileAbsent, FileMalformed} \cup {FileOk(c) : c \in BuilderConfigs}
    /\ dirExists \in (IF cfgFile = FileAbsent THEN BOOLEAN ELSE {TRUE})
    /\ sarifFile = FALSE /\ runs = 0 /\ lastArgs = <<>> /\ last = NoOp
    /\ bpc = "building"
    /\ bld = DefaultBuilder
    /\ bgiven = None

BName(n) ==
    /\ bpc = "building"
    /\ bld' = builder_name(bld, n)
    /\ bgiven' = Some(n)
    /\ UNCHANGED <<bpc, qvars, dvars, pvars, lvars, rvars, svars>>

BPath(p) ==
    /\ bpc = "building"
    /\ bld' = builder_path(bld, p, p = DiskPath /\ dirExists, cfgFile)
    /\ UNCHANGED <<bpc, bgiven, qvars, dvars, pvars, lvars, rvars, svars>>

BSource(s) ==
    /\ bpc = "building"
    /\ bld' = builder_source(bld, s)
    /\ UNCHANGED <<bpc, bgiven, qvars, dvars, pvars, lvars, rvars, svars>>

BLanguage(token) ==
    /\ bpc = "building"
    /\ bld' = builder_language(bld, token)
    /\ UNCHANGED <<bpc, bgiven, qvars, dvars, pvars, lvars, rvars, svars>>

BRepository(r) ==
    /\ bpc = "building"
    /\ bld' = builder_repository(bld, r)
    /\ UNCHANGED <<bpc, bgiven, qvars, dvars, pvars, lvars, rvars, svars>>

BBuild ==
    /\ bpc = "building"
    /\ bpc' = "built"
    /\ db' = build(bld)
    /\ UNCHANGED <<bld, bgiven, qvars, pvars, lvars, rvars, svars>>
    /\ UNCHANGED <<codeql, dirExists, cfgFile, sarifFile, runs, lastArgs, last>>

BNext ==
    \/ \E n \in BuilderNames : BName(n)
    \/ \E p \in BuilderPaths : BPath(p)
    \/ \E s \in BuilderSources : BSource(s)
    \/ \E token \in BuilderLanguages : BLanguage(token)
    \/ \E r \in BuilderRepositories : BRepository(r)
    \/ BBuild

SpecBuild == BInit /\ [][BNext]_vars

-----------------------------------------------------------------------------
(* Specification SpecLanguage: a token is turned into a language, and the    *)
(* id of that language into a language again.                                *)

\* the tokens From<&str> names as languages
Aliases ==
    {<<"c">>, <<"c","p","p">>, <<"c","+","+">>, <<"c","s","h","a","r","p">>, <<"c","#">>, <<"g","o">>, <<"g","o","l","a","n","g">>, <<"j","a","v","a">>, <<"k","o","t","l","i","n">>,
     <<"j","a","v","a","s","c","r","i","p","t">>, <<"j","s">>, <<"t","y","p","e","s","c","r","i","p","t">>, <<"t","s">>, <<"p","y","t","h","o","n">>, <<"p","y">>, <<"s","w","i","f","t">>, <<"r","u","b","y">>}

\* the tokens converted: the aliases, the secondary names, some of them in
\* upper case, tokens that name no language, and every short string
Tokens ==
    Aliases \cup SecondaryNames
    \cup {<<"K","o","t","l","i","n">>, <<"J","S">>, <<"C","+","+">>, <<"Y","A","M","L">>, <<"C","s","v">>}
    \cup {<<"r","u","s","t">>, <<"n","o","n","e">>, <<"j","a","v","a"," ">>, <<"c","o","b","o","l">>}
    \cup Strings(2)

LInitLanguage ==
    /\ QIdle /\ DIdle /\ PIdle /\ BIdle /\ RIdle /\ SIdle
    /\ lpc = "start"
    /\ ltoken = None
    /\ lang = LanguageNone
    /\ lback = LanguageNone

\* CodeQLLanguage::from(Option<String>)
LFrom(o) ==
    /\ lpc = "start"
    /\ lpc' = "have"
    /\ ltoken' = o
    /\ lang' = LanguageFromOption(o)
    /\ UNCHANGED lback
    /\ UNCHANGED <<qvars, dvars, pvars, bvars, rvars, svars>>

\* CodeQLLanguage::from(lang.language())
LAgain ==
    /\ lpc = "have"
    /\ lpc' = "again"
    /\ lback' = LanguageFrom(language(lang))
    /\ UNCHANGED <<ltoken, lang>>
    /\ UNCHANGED <<qvars, dvars, pvars, bvars, rvars, svars>>

LNextLanguage ==
    \/ \E o \in {None} \cup {Some(s) : s \in Tokens} : LFrom(o)
    \/ LAgain

SpecLanguage == LInitLanguage /\ [][LNextLanguage]_vars

-----------------------------------------------------------------------------
(* Specification SpecRun: one call of CodeQL::run (or rn, which hides the    *)
(* output), against a child process that behaves in any of a few ways.       *)

\* the lines a child writes to stdout, and to stderr
StdoutLines == {<<"4","2">>, <<"7">>}
StderrLines == {<<"9">>}

\* at most this many lines of stdout
MaxLines == 2

RECURSIVE SeqsUpTo(_, _)
SeqsUpTo(set, n) ==
    IF n = 0 THEN {<<>>}
    ELSE SeqsUpTo(set, n - 1)
         \cup {Append(s, x) : s \in {q \in SeqsUpTo(set, n - 1) : Len(q) = n - 1}, x \in set}

\* the registry token of the invoker
RegistryTokens == {None, Some(<<"t","o","k">>)}

\* the environment of the parent: HOME, with or without a registry token of
\* its own, with or without a variable whose name is not valid Unicode
ParentEnvs ==
    { {[k |-> <<"H","O","M","E">>, v |-> <<"/","h">>]} \cup a \cup b :
        a \in {{}, {[k |-> REGISTRIES_AUTH, v |-> <<"o","l","d">>]}},
        b \in {{}, {[k |-> <<"K", "xFF">>, v |-> <<"x">>]}} }

Children ==
    {NoChild} \cup
    { Child(TRUE, so, b, se, st) :
        so \in SeqsUpTo(StdoutLines, MaxLines), b \in BOOLEAN,
        se \in SeqsUpTo(StderrLines, 1), st \in {0, 1} }

RInit ==
    /\ QIdle /\ PIdle /\ BIdle /\ LIdle /\ SIdle
    /\ db = NoDatabase
    /\ \E show \in BOOLEAN, tok \in RegistryTokens :
          codeql = [DefaultCodeQL EXCEPT !.showoutput = show, !.token = tok]
    /\ dirExists = FALSE /\ cfgFile = FileAbsent /\ sarifFile = FALSE
    /\ runs = 0 /\ lastArgs = <<>> /\ last = NoOp
    /\ rpc = "start"
    /\ rchild \in Children
    /\ rlines = <<>>
    /\ rprinted = <<>>
    /\ rres = RunErr("", <<>>)
    /\ renv \in ParentEnvs
    /\ rchildenv = {}
    /\ rspawns = 0

\* Command::spawn()?
RSpawn ==
    /\ rpc = "start"
    /\ IF rchild.spawn
       THEN /\ rpc' = "reading"
            /\ rchildenv' = ChildEnv(renv, run_envs(renv, codeql.token))
            /\ rspawns' = rspawns + 1
            /\ UNCHANGED rres
       ELSE /\ rpc' = "done"
            /\ rres' = RunErr("IoError", <<>>)
            /\ UNCHANGED <<rchildenv, rspawns>>
    /\ UNCHANGED <<rchild, rlines, rprinted, renv>>
    /\ UNCHANGED <<qvars, dvars, pvars, bvars, lvars, svars>>

\* one turn of `while let Some(line) = lines.next_line().await?`
RReadLine ==
    /\ rpc = "reading"
    /\ Len(rlines) < Len(rchild.stdout)
    /\ LET line == rchild.stdout[Len(rlines) + 1]
       IN  /\ rprinted' = IF codeql.showoutput THEN Append(rprinted, line) ELSE rprinted
           /\ rlines' = Append(rlines, line)
    /\ UNCHANGED <<rpc, rchild, rres, renv, rchildenv, rspawns>>
    /\ UNCHANGED <<qvars, dvars, pvars, bvars, lvars, svars>>

\* next_line() at the end of stdout: None, or an error
RReadEnd ==
    /\ rpc = "reading"
    /\ Len(rlines) = Len(rchild.stdout)
    /\ IF rchild.broken
       THEN rpc' = "done" /\ rres' = RunErr("IoError", <<>>)
       ELSE rpc' = "waiting" /\ UNCHANGED rres
    /\ UNCHANGED <<rchild, rlines, rprinted, renv, rchildenv, rspawns>>
    /\ UNCHANGED <<qvars, dvars, pvars, bvars, lvars, svars>>

\* cmd.wait() and the result
RWait ==
    /\ rpc = "waiting"
    /\ rpc' = "done"
    /\ rres' = run_status(rchild.status, rlines)
    /\ UNCHANGED <<rchild, rlines, rprinted, renv, rchildenv, rspawns>>
    /\ UNCHANGED <<qvars, dvars, pvars, bvars, lvars, svars>>

RNext == RSpawn \/ RReadLine \/ RReadEnd \/ RWait

SpecRun == RInit /\ [][RNext]_vars

-----------------------------------------------------------------------------
(* Specification SpecQueries: a specifier is obtained (parsed from a string,   *)
(* built by language_default, constructed field by field, or set by the suite *)
(* shorthand), rendered with to_string, and the rendering parsed again.       *)

\* values a directly constructed component takes
Components == {None} \cup {Some(s) : s \in Strings(1)}

\* language ids handed to language_default and to suite
\* the languages of the databases suite() is called for
SuiteLanguages == {Language("C"), Language("Kotlin")}

LanguageIds == {<<"c">>, <<"g","o">>}

QInit ==
    /\ DIdle
    /\ PIdle /\ BIdle /\ LIdle /\ RIdle /\ SIdle
    /\ qpc = "start"
    /\ qkind = "none"
    /\ qin = <<>>
    /\ qres = Err("")
    /\ qtext = <<>>
    /\ qback = Err("")

QParse(s) ==
    /\ qpc = "start"
    /\ qpc' = "have"
    /\ qkind' = "parse"
    /\ qin' = s
    /\ qres' = parse(s)
    /\ UNCHANGED <<qtext, qback>>
    /\ UNCHANGED <<dvars, pvars, bvars, lvars, rvars, svars>>

QLanguageDefault(l) ==
    /\ qpc = "start"
    /\ qpc' = "have"
    /\ qkind' = "default"
    /\ qin' = l
    /\ qres' = Ok(language_default(l))
    /\ UNCHANGED <<qtext, qback>>
    /\ UNCHANGED <<dvars, pvars, bvars, lvars, rvars, svars>>

QConstruct(s, n, r, p) ==
    /\ qpc = "start"
    /\ qpc' = "have"
    /\ qkind' = "construct"
    /\ qin' = <<>>
    /\ qres' = Ok(Queries(s, n, r, p))
    /\ UNCHANGED <<qtext, qback>>
    /\ UNCHANGED <<dvars, pvars, bvars, lvars, rvars, svars>>

\* suite(s) on a handler for a database of language l
QSuite(l, s) ==
    /\ qpc = "start"
    /\ qpc' = "have"
    /\ qkind' = "suite"
    /\ qin' = s
    /\ db' = [db EXCEPT !.language = l]
    /\ qres' = Ok(suite(language(l), s))
    /\ UNCHANGED <<qtext, qback>>
    /\ UNCHANGED <<codeql, dirExists, cfgFile, sarifFile, runs, lastArgs, last>>
    /\ UNCHANGED <<pvars, bvars, lvars, rvars, svars>>

QToString ==
    /\ qpc = "have"
    /\ qres.ok
    /\ qpc' = "rendered"
    /\ qtext' = to_string(qres.val)
    /\ UNCHANGED <<qkind, qin, qres, qback>>
    /\ UNCHANGED <<dvars, pvars, bvars, lvars, rvars, svars>>

QReparse ==
    /\ qpc = "rendered"
    /\ qpc' = "reparsed"
    /\ qback' = parse(qtext)
    /\ UNCHANGED <<qkind, qin, qres, qtext>>
    /\ UNCHANGED <<dvars, pvars, bvars, lvars, rvars, svars>>

QNext ==
    \/ qpc = "start" /\ \E s \in Strings(MaxLen) : QParse(s)
    \/ qpc = "start" /\ \E l \in LanguageIds : QLanguageDefault(l)
    \/ qpc = "start" /\ \E s \in Components, n \in Components,
                           r \in Components, p \in Components :
                              QConstruct(s, n, r, p)
    \/ qpc = "start" /\ \E l \in SuiteLanguages, s \in SuiteNames \cup Strings(2) :
                              QSuite(l, s)
    \/ QToString
    \/ QReparse

SpecQueries == QInit /\ [][QNext]_vars

-----------------------------------------------------------------------------
(* The operations of the lifecycle: create, analyze (handler.rs), run        *)
(* (cli.rs) and reload (database.rs)                                         *)

\* what the spawned child does: exit 0, exit non-zero, or fail to spawn
RunOutcomes == {"ok", "exit_nonzero", "spawn_error"}

\* CodeQL::run: the result for an outcome of the child
run(out) ==
    CASE out = "ok" -> Done
      [] out = "exit_nonzero" -> Fail("CodeQLError", "Error running CodeQL command")
      [] out = "spawn_error" -> Fail("IoError", "spawn")

\* the effect of an operation of the handler: its result, whether the
\* database directory exists afterwards, whether CodeQL::run was invoked and
\* with which arguments
Effect(res, dir, ran, args) == [res |-> res, dir |-> dir, ran |-> ran, args |-> args]

\* create making the directory before it builds the arguments
create_MkdirFirst(d, c, h, exists, mkdirOk, out) ==
    LET cmd == create_cmd(d, c, h)
    IN  IF ~exists /\ ~mkdirOk
        THEN Effect(Fail("IoError", "create_dir_all"), FALSE, FALSE, <<>>)
        ELSE IF ~cmd.ok
        THEN Effect(Fail(cmd.err, cmd.msg), TRUE, FALSE, <<>>)
        ELSE Effect(run(out), TRUE, TRUE, cmd.args)

\* CodeQLDatabaseHandler::create
create(d, c, h, exists, mkdirOk, out) ==
    LET cmd == create_cmd(d, c, h)
    IN  IF ~cmd.ok
        THEN Effect(Fail(cmd.err, cmd.msg), exists, FALSE, <<>>)
        ELSE IF ~exists /\ ~mkdirOk
        THEN Effect(Fail("IoError", "create_dir_all"), FALSE, FALSE, <<>>)
        ELSE Effect(run(out), TRUE, TRUE, cmd.args)

\* CodeQLDatabaseHandler::analyze
analyze(d, c, h, exists, out) ==
    LET cmd == analyze_cmd(d, c, h)
    IN  IF ~cmd.ok
        THEN Effect(Fail(cmd.err, cmd.msg), exists, FALSE, <<>>)
        ELSE Effect(run(out), exists, TRUE, cmd.args)

\* reload dropping the config when the database is invalid
reload_Clear(d, file) ==
    IF validate(file)
    THEN LET c == ConfigRead(file)
         IN  IF c.ok
             THEN [res |-> Done, config |-> Some(c.val[1])]
             ELSE [res |-> Fail(c.err, "codeql-database.yml"), config |-> d.config]
    ELSE [res |-> Fail("CodeQLDatabaseError", "Invalid CodeQL Database"),
          config |-> None]

\* CodeQLDatabase::reload on the file found on disk: the result and the
\* config the database holds afterwards
reload(d, file) ==
    IF validate(file)
    THEN LET c == ConfigRead(file)
         IN  IF c.ok
             THEN [res |-> Done, config |-> Some(c.val[1])]
             ELSE [res |-> Fail(c.err, "codeql-database.yml"), config |-> d.config]
    ELSE [res |-> Fail("CodeQLDatabaseError", "Invalid CodeQL Database"),
          config |-> d.config]

-----------------------------------------------------------------------------
(* Specification Spec: a database is built, and create, reload and analyze   *)
(* are called on it in any order, each with a handler configured by the      *)
(* builder methods; the child process ends in any of its outcomes.           *)

LanguagesUnderTest == {Language("JavaScript"), Secondary(<<"y","a","m","l">>), LanguageNone}

Sources == {None, Some(<<"/","s","r","c">>)}

Repositories == {None, Some([owner |-> <<"o">>, name |-> <<"r">>])}

SearchPaths == {<<>>, <<<<"/","a">>, <<"/","b">>>>}

\* the additional packs appended to an invoker with the search path sp
AdditionalPacks(sp) == IF sp = <<>> THEN {<<>>} ELSE {<<>>, <<<<"p">>, <<"q">>>>}

\* codeql-database.yml as the CLI writes it for a database of language l
WrittenConfigs(l) ==
    { DatabaseConfig(language(l), 10,
                     Some([cli_version |-> <<"2",".","1">>, creation_time |-> 1])),
      DatabaseConfig(language(l), 20, None) }

\* handlers reached from CodeQLDatabaseHandler::new by the builder methods
Handlers(d) ==
    LET h == NewHandler(d)
    IN  { h,
          [h EXCEPT !.overwrite = TRUE],
          [h EXCEPT !.summary = FALSE, !.threat_models = <<<<"t","m">>>>,
                    !.model_packs = <<<<"m","1">>, <<"m","2">>>>, !.category = Some(<<"c","a","t">>)],
          [h EXCEPT !.output = Some(<<"o","u","t",".","c","s","v">>), !.output_format = <<"c","s","v">>,
                    !.queries = suite(language(d.language), SecurityExtended)],
          [h EXCEPT !.output = None] }

Init ==
    /\ QIdle
    /\ \E l \in LanguagesUnderTest, s \in Sources, r \in Repositories :
          db = Database(<<"t","e","s","t">>, <<"/","d","b">>, l, s, r, None)
    /\ \E sp \in SearchPaths : \E ap \in AdditionalPacks(sp) :
          codeql = [DefaultCodeQL EXCEPT !.search_path = sp, !.additional_packs = ap]
    /\ cfgFile \in {FileAbsent, FileMalformed}
                    \cup {FileOk(c) : c \in WrittenConfigs(db.language)}
    /\ dirExists \in (IF cfgFile = FileAbsent THEN BOOLEAN ELSE {TRUE})
    /\ sarifFile = FALSE
    /\ runs = 0
    /\ lastArgs = <<>>
    /\ last = NoOp
    /\ PIdle /\ BIdle /\ LIdle /\ RIdle /\ SIdle

Create(h, mkdirOk, out) ==
    /\ runs < MaxRuns
    /\ LET e == create(db, codeql, h, dirExists, mkdirOk, out)
       IN  /\ last' = Op("create", e.res)
           /\ dirExists' = e.dir
           /\ runs' = IF e.ran THEN runs + 1 ELSE runs
           /\ lastArgs' = IF e.ran THEN e.args ELSE lastArgs
           \* the child writes codeql-database.yml when it succeeds; a child
           \* that fails under --overwrite may have removed the old one
           /\ cfgFile' \in
                IF e.ran /\ out = "ok"
                THEN {FileOk(c) : c \in WrittenConfigs(db.language)}
                ELSE IF e.ran /\ out = "exit_nonzero" /\ h.overwrite
                THEN {cfgFile, FileAbsent}
                ELSE {cfgFile}
    /\ UNCHANGED <<db, codeql, sarifFile>>
    /\ UNCHANGED <<qvars, pvars, bvars, lvars, rvars, svars>>

Analyze(h, out) ==
    /\ runs < MaxRuns
    /\ LET e == analyze(db, codeql, h, dirExists, out)
       IN  /\ last' = Op("analyze", e.res)
           /\ runs' = IF e.ran THEN runs + 1 ELSE runs
           /\ lastArgs' = IF e.ran THEN e.args ELSE lastArgs
           /\ sarifFile' = (sarifFile \/ (e.ran /\ out = "ok"))
    /\ UNCHANGED <<db, codeql, dirExists, cfgFile>>
    /\ UNCHANGED <<qvars, pvars, bvars, lvars, rvars, svars>>

Reload ==
    /\ LET r == reload(db, cfgFile)
       IN  /\ last' = Op("reload", r.res)
           /\ db' = [db EXCEPT !.config = r.config]
    /\ UNCHANGED <<codeql, dirExists, cfgFile, sarifFile, runs, lastArgs>>
    /\ UNCHANGED <<qvars, pvars, bvars, lvars, rvars, svars>>

Next ==
    \/ \E h \in Handlers(db), mkdirOk \in BOOLEAN, out \in RunOutcomes :
          Create(h, mkdirOk, out)
    \/ \E h \in Handlers(db), out \in RunOutcomes : Analyze(h, out)
    \/ Reload

Spec == Init /\ [][Next]_vars

-----------------------------------------------------------------------------
(* Specification SpecDatabase: a database built by the builder, without or   *)
(* with a config handed to config(), and then create, analyze, reload and    *)
(* set_repository called on it in any order.                                 *)

\* the builders the database is built from
DatabaseBuilders ==
    LET b == builder_language(
                 builder_source(builder_name(DefaultBuilder, <<"t">>), <<"/","s","r","c">>), <<"j","s">>)
    IN  { b,
          builder_config(b, DatabaseConfig(<<"j","a","v","a","s","c","r","i","p","t">>, 5,
                                Some([cli_version |-> <<"2",".","0">>, creation_time |-> 7]))) }

DbInit ==
    /\ QIdle /\ PIdle /\ LIdle /\ RIdle /\ SIdle
    /\ bpc = "built"
    /\ bld \in DatabaseBuilders
    /\ bgiven = Some(<<"t">>)
    /\ db = build(bld)
    /\ codeql = DefaultCodeQL
    /\ cfgFile \in {FileAbsent, FileMalformed}
                    \cup {FileOk(c) : c \in WrittenConfigs(db.language)}
    /\ dirExists \in (IF cfgFile = FileAbsent THEN BOOLEAN ELSE {TRUE})
    /\ sarifFile = FALSE
    /\ runs = 0
    /\ lastArgs = <<>>
    /\ last = NoOp

SetRepository(r) ==
    /\ db' = set_repository(db, r)
    /\ last' = Op("set_repository", Done)
    /\ UNCHANGED <<codeql, dirExists, cfgFile, sarifFile, runs, lastArgs>>
    /\ UNCHANGED <<qvars, pvars, bvars, lvars, rvars, svars>>

DbNext ==
    \/ \E mkdirOk \in BOOLEAN, out \in RunOutcomes : Create(NewHandler(db), mkdirOk, out)
    \/ \E out \in RunOutcomes : Analyze(NewHandler(db), out)
    \/ Reload
    \/ \E r \in BuilderRepositories : SetRepository(r)

SpecDatabase == DbInit /\ [][DbNext]_vars

-----------------------------------------------------------------------------
(* Specification SpecScan: one call of CodeQL::scan on a built database.     *)

\* the queries strings handed to scan
ScanQueries == {<<"a","/","b">>, <<"d","e","f","a","u","l","t">>, <<>>}

\* self.database(db).overwrite()
ScanCreateHandler(d) == [NewHandler(d) EXCEPT !.overwrite = TRUE]

\* self.database(db).sarif(db.path().join("results.sarif")).queries(queries)
ScanAnalyzeHandler(d, queries) ==
    [NewHandler(d) EXCEPT
        !.output = Some(Push(d.path, <<"r","e","s","u","l","t","s",".","s","a","r","i","f">>)),
        !.output_format = <<"s","a","r","i","f","-","l","a","t","e","s","t">>,
        !.queries = QueriesFrom(queries)]

ScanInit ==
    /\ QIdle /\ PIdle /\ BIdle /\ LIdle /\ RIdle
    /\ \E l \in LanguagesUnderTest, s \in Sources :
          db = Database(<<"t","e","s","t">>, <<"/","d","b">>, l, s, None, None)
    /\ codeql = DefaultCodeQL
    /\ cfgFile \in {FileAbsent, FileMalformed}
                    \cup {FileOk(c) : c \in WrittenConfigs(db.language)}
    /\ dirExists \in (IF cfgFile = FileAbsent THEN BOOLEAN ELSE {TRUE})
    /\ sarifFile = FALSE
    /\ runs = 0
    /\ lastArgs = <<>>
    /\ last = NoOp
    /\ spc = "start"
    /\ squeries \in ScanQueries
    /\ sevents = <<>>

\* self.database(db).overwrite().create().await?
ScanCreate(mkdirOk, out) ==
    /\ spc = "start"
    /\ LET e == create(db, codeql, ScanCreateHandler(db), dirExists, mkdirOk, out)
       IN  /\ last' = Op("create", e.res)
           /\ dirExists' = e.dir
           /\ runs' = IF e.ran THEN runs + 1 ELSE runs
           /\ lastArgs' = IF e.ran THEN e.args ELSE lastArgs
           /\ cfgFile' \in
                IF e.ran /\ out = "ok"
                THEN {FileOk(c) : c \in WrittenConfigs(db.language)}
                ELSE IF e.ran /\ out = "exit_nonzero"
                THEN {cfgFile, FileAbsent}
                ELSE {cfgFile}
           /\ sevents' = IF e.ran THEN Append(sevents, "create") ELSE sevents
           /\ spc' = IF e.res.ok THEN "created" ELSE "failed"
    /\ UNCHANGED <<db, codeql, sarifFile, squeries>>
    /\ UNCHANGED <<qvars, pvars, bvars, lvars, rvars>>

\* self.database(db).sarif(sarif).queries(queries).analyze().await?
ScanAnalyze(out) ==
    /\ spc = "created"
    /\ LET e == analyze(db, codeql, ScanAnalyzeHandler(db, squeries), dirExists, out)
       IN  /\ last' = Op("analyze", e.res)
           /\ runs' = IF e.ran THEN runs + 1 ELSE runs
           /\ lastArgs' = IF e.ran THEN e.args ELSE lastArgs
           /\ sarifFile' = (sarifFile \/ (e.ran /\ out = "ok"))
           /\ sevents' = IF e.ran THEN Append(sevents, "analyze") ELSE sevents
           /\ spc' = IF e.res.ok THEN "analyzed" ELSE "failed"
    /\ UNCHANGED <<db, codeql, dirExists, cfgFile, squeries>>
    /\ UNCHANGED <<qvars, pvars, bvars, lvars, rvars>>

\* db.reload()?
ScanReload ==
    /\ spc = "analyzed"
    /\ LET r == reload(db, cfgFile)
       IN  /\ last' = Op("reload", r.res)
           /\ db' = [db EXCEPT !.config = r.config]
           /\ spc' = IF r.res.ok THEN "reloaded" ELSE "failed"
    /\ sevents' = Append(sevents, "reload")
    /\ UNCHANGED <<codeql, dirExists, cfgFile, sarifFile, runs, lastArgs, squeries>>
    /\ UNCHANGED <<qvars, pvars, bvars, lvars, rvars>>

\* self.sarif(sarif): the results file is read
ScanSarif ==
    /\ spc = "reloaded"
    /\ last' = Op("sarif", IF sarifFile THEN Done ELSE Fail("IoError", "results.sarif"))
    /\ spc' = IF sarifFile THEN "done" ELSE "failed"
    /\ UNCHANGED <<db, codeql, dirExists, cfgFile, sarifFile, runs, lastArgs>>
    /\ UNCHANGED <<squeries, sevents>>
    /\ UNCHANGED <<qvars, pvars, bvars, lvars, rvars>>

ScanNext ==
    \/ \E mkdirOk \in BOOLEAN, out \in RunOutcomes : ScanCreate(mkdirOk, out)
    \/ \E out \in RunOutcomes : ScanAnalyze(out)
    \/ ScanReload
    \/ ScanSarif

SpecScan == ScanInit /\ [][ScanNext]_vars

-----------------------------------------------------------------------------
(* Claims about the query specifier *)

Has(s, ch) == \E i \in 1..Len(s) : s[i] = ch

IsPathLike(s) == StartsWith(s, "/") \/ StartsWith(s, ".")

\* C4: for every specifier produced by language_default or constructed field
\* by field (each component present or absent), parsing its rendering
\* succeeds and gives back the same four components.
C4_RoundTripConstructed ==
    (qpc = "reparsed" /\ qkind \in {"default", "construct"})
        => (qback.ok /\ qback.val = qres.val)

\* C5: for every non-empty input s, parse(to_string(parse(s))) succeeds and
\* equals parse(s).
C5_LeftInverse ==
    (qpc = "reparsed" /\ qkind = "parse" /\ qin # <<>>)
        => (qback.ok /\ qback.val = qres.val)

\* C6: parse fails, with the pack error "CodeQLQueries cannot be empty",
\* exactly when the input is the empty string; every other input parses.
C6_ParseFailsOnlyOnEmpty ==
    (qkind = "parse" /\ qpc # "start")
        => /\ qres.ok <=> (qin # <<>>)
           /\ ~qres.ok => qres.err = "CodeQLPackError: CodeQLQueries cannot be empty"

C6_Witness == qkind = "parse" /\ qpc = "have" /\ qin = <<>> /\ ~qres.ok

\* C7 (as claimed): in every specifier the parser or the suite shorthand
\* produces, a path that starts with '/' or '.' comes with scope, name and
\* range all None.
C7_PathExcludesPack ==
    (qkind \in {"parse", "suite"} /\ qpc # "start" /\ qres.ok
        /\ qres.val.path.some /\ IsPathLike(qres.val.path.val))
        => (~qres.val.scope.some /\ ~qres.val.name.some /\ ~qres.val.range.some)

\* C7 (amended): when the string handed to the parser (directly, or through
\* suite(s) for an s that is no suite name) starts with '/' or '.', the
\* specifier has scope, name and range None and the whole string as path;
\* a named suite yields a path that starts with neither.
C7_PathInputExcludesPack ==
    /\ (qkind \in {"parse", "suite"} /\ qpc # "start" /\ IsPathLike(qin))
        => (qres.ok /\ qres.val = Queries(None, None, None, Some(qin)))
    /\ (qkind = "suite" /\ qpc # "start" /\ qin \in SuiteNames)
        => (qres.val.path.some /\ ~IsPathLike(qres.val.path.val))

C7_Witness ==
    qkind = "parse" /\ qpc = "have" /\ StartsWith(qin, ".") /\ Has(qin, "/")
        /\ qres.val.path = Some(qin)

\* the text a pack reference renders to after "scope/"
RestOf(q) ==
    q.name.val
        \o (IF q.range.some THEN <<"@">> \o q.range.val ELSE <<>>)
        \o (IF q.path.some THEN <<":">> \o q.path.val ELSE <<>>)

\* C8: an input that does not start with '/' or '.' and holds a '/' is cut at
\* its first '/' into scope and rest, the rest at its first '@' into name and
\* remainder, and, only when there was an '@', the remainder at its first ':'
\* into range and path; an input starting with '/' or '.' is the path, unsplit;
\* an input without '/' that is a known language id is language_default(id).
C8_ParseSplits ==
    (qkind = "parse" /\ qpc # "start" /\ qin # <<>>) =>
        LET q == qres.val
        IN  /\ qres.ok
            /\ IsPathLike(qin) => q = Queries(None, None, None, Some(qin))
            /\ (~IsPathLike(qin) /\ Has(qin, "/")) =>
                  /\ q.scope.some /\ q.name.some
                  /\ qin = q.scope.val \o <<"/">> \o RestOf(q)
                  /\ ~Has(q.scope.val, "/")
                  /\ ~Has(q.name.val, "@")
                  /\ q.range.some => ~Has(q.range.val, ":")
                  /\ q.path.some => q.range.some
            /\ (~IsPathLike(qin) /\ ~Has(qin, "/") /\ qin \in CODEQL_LANGUAGES) =>
                  q = Queries(Some(<<"c","o","d","e","q","l">>),
                              Some(qin \o <<"-","q","u","e","r","i","e","s">>),
                              None, None)

C8_Witness ==
    /\ qkind = "parse" /\ qpc = "have"
    /\ qres.val.scope.some /\ qres.val.path.some
    /\ Has(qres.val.range.val, "@")

-----------------------------------------------------------------------------
(* Claims about the database lifecycle *)

CreateStep ==
    \E h \in Handlers(db), mkdirOk \in BOOLEAN, out \in RunOutcomes :
        Create(h, mkdirOk, out)

\* C1: create() on a database without a source fails with the database error
\* "No source root provided" and has no side effect: CodeQL::run is not
\* invoked and the database directory is not created.
C1_CreateWithoutSource ==
    [][(CreateStep /\ ~db.source.some) =>
          /\ last'.res = Fail("CodeQLDatabaseError", "No source root provided")
          /\ runs' = runs /\ lastArgs' = lastArgs
          /\ dirExists' = dirExists /\ cfgFile' = cfgFile /\ db' = db]_vars

C1_Witness ==
    /\ last.op = "create" /\ last.res.msg = "No source root provided"
    /\ ~db.source.some /\ ~dirExists /\ runs = 0

\* C2: create() on a database whose language is None or secondary is refused
\* with a database error before CodeQL::run is invoked.
C2_CreateNeedsPrimaryLanguage ==
    [][(CreateStep /\ (is_none(db.language) \/ is_secondary(db.language))) =>
          /\ ~last'.res.ok /\ last'.res.err = "CodeQLDatabaseError"
          /\ runs' = runs]_vars

\* C3: reload() on a database whose directory holds no codeql-database.yml
\* fails with the database error "Invalid CodeQL Database" and leaves config
\* as it was; a reload() that succeeds leaves config equal to the content of
\* the file read.
C3_Reload ==
    [][Reload =>
          /\ ~validate(cfgFile) =>
                /\ last'.res = Fail("CodeQLDatabaseError", "Invalid CodeQL Database")
                /\ db' = db
          /\ last'.res.ok =>
                /\ cfgFile.state = "ok"
                /\ db'.config = Some(cfgFile.content[1])]_vars

C3_Witness ==
    /\ last.op = "reload" /\ last.res.msg = "Invalid CodeQL Database"
    /\ runs = 0 /\ ~db.config.some /\ ~validate(cfgFile)

-----------------------------------------------------------------------------
(* Claims about pack resolution                                              *)

\* the specifier a resolved value parses to
Specifier == QueriesFrom(pvalue)

\* the value is a scope/name[@version] reference to the pack of the cache,
\* and no local path of that name exists
IsCachedPackRef ==
    /\ ppc = "resolved"
    /\ ~pfs.local.exists
    /\ Specifier.scope = Some(CachedScope)
    /\ Specifier.name = Some(CachedName)
    /\ ~Specifier.path.some

\* the cache directory of a version
CacheDir(v) == PackagesPath \o <<CachedScope, CachedName, v>>

\* a version directory holds a qlpack.yml
Holds(v) == pfs.cache[v].exists /\ pfs.cache[v].qlpack.state # "absent"

\* what a version directory holds can be read: the qlpack.yml parses, and so
\* does codeql-pack.lock.yml when there is one
WellFormed(v) ==
    /\ pfs.cache[v].exists
    /\ pfs.cache[v].qlpack.state = "ok"
    /\ pfs.cache[v].lock.state # "malformed"

\* the result is the pack of a version directory of the cache
CacheSourced(v) ==
    /\ pres.ok
    /\ pres.val.pack = Some(pfs.cache[v].qlpack.content[1])
    /\ pres.val.path = CacheDir(v)

\* the result is a pack that only carries the reference
ReferenceOnly ==
    /\ pres.ok
    /\ pres.val.pack = None
    /\ pres.val.pack_type = None
    /\ pres.val.pack_lock = None
    /\ pres.val.path = <<>>
    /\ pres.val.queries.scope = Specifier.scope
    /\ pres.val.queries.name = Specifier.name
    /\ pres.val.queries.range = Specifier.range

\* the versions the reference names: the one of its @version, every one when
\* it has none (or a wildcard)
Named ==
    IF Specifier.range.some /\ Specifier.range.val \notin Wildcards
    THEN {Specifier.range.val} \cap Versions
    ELSE Versions

Found ==
    IF pfs.local.exists THEN {pfs.local}
    ELSE LET q == Specifier
             ns == UnwrapOrDefault(q.scope)
             nm == UnwrapOrDefault(q.name)
             pat == IF q.range.some THEN q.range.val ELSE <<"*","*">>
             entries == Glob(pfs, ns, nm, pat)
         IN  IF ns = CachedScope /\ nm = CachedName /\ pat \in Versions /\ Holds(pat)
             THEN {pfs.cache[pat]}
             ELSE IF entries # {} THEN {pfs.cache[GlobLast(entries)]}
             ELSE {}

\* a directory whose qlpack.yml is malformed, or whose qlpack.yml is read
\* and whose codeql-pack.lock.yml is malformed
Malformed(d) ==
    \/ d.qlpack.state = "malformed"
    \/ d.qlpack.state = "ok" /\ d.lock.state = "malformed"

\* C10: whenever the resolution finds a malformed qlpack.yml or
\* codeql-pack.lock.yml, on the local path or in the package cache, it
\* returns the error of the parse failure, and never a reference-only pack.
C10_MalformedIsError ==
    (ppc = "resolved" /\ \E d \in Found : Malformed(d)) =>
        ~pres.ok /\ pres.err = "YamlError"

\* C11: resolving a value that names an existing path with no qlpack.yml
\* under it (under its parent directory when it names a file) fails with a
\* pack error: neither the package cache nor a reference-only pack is
\* turned to.
C11_PathWithoutManifest ==
    (ppc = "resolved" /\ pfs.local.exists /\ pfs.local.qlpack.state = "absent") =>
        /\ ~pres.ok
        /\ pres.err = "CodeQLPackError"
        /\ pres.msg = "qlpack.yml file does not exist"

\* the value names an existing file whose directory has no qlpack.yml, it
\* also reads as a reference to a pack the cache holds, and the resolution
\* failed
C11_Witness ==
    /\ ppc = "resolved"
    /\ pfs.local.exists /\ pfs.local.is_file
    /\ pfs.local.qlpack.state = "absent"
    /\ Specifier.scope = Some(CachedScope) /\ Specifier.name = Some(CachedName)
    /\ \E v \in Versions : WellFormed(v)
    /\ ~pres.ok

-----------------------------------------------------------------------------
(* Claims about the pack type                                                *)

\* a pack was loaded from a manifest
Loaded == ppc = "loaded" /\ pres.ok /\ pres.val.pack.some

\* the manifest of the loaded pack
Manifest == pres.val.pack.val

\* C12: a manifest with library: true and a non-empty dataExtensions list is
\* of pack type Models, never Library.
C12_LibraryWithExtensionsIsModels ==
    ( /\ Loaded
      /\ Manifest.library = Some(TRUE)
      /\ Manifest.data_extensions.some
      /\ Manifest.data_extensions.val # <<>> )
    => pres.val.pack_type = Some("Models")

\* a library with data extensions, and tests besides, was loaded as Models
C12_Witness ==
    /\ Loaded
    /\ Manifest.library = Some(TRUE)
    /\ Manifest.data_extensions.some /\ Manifest.data_extensions.val # <<>>
    /\ Manifest.tests.some
    /\ pres.val.pack_type = Some("Models")

\* the manifest says library: true
IsLibrary == Manifest.library = Some(TRUE)

\* C13: for every combination of library (absent, false, true), dataExtensions
\* (absent, present) and tests (absent, present) the pack type is: Models for
\* a library with data extensions, Library for a library without, otherwise
\* Testing for a manifest with tests, otherwise Queries.
C13_Precedence ==
    Loaded =>
        pres.val.pack_type =
            Some(IF IsLibrary /\ Manifest.data_extensions.some THEN "Models"
                 ELSE IF IsLibrary THEN "Library"
                 ELSE IF Manifest.tests.some THEN "Testing"
                 ELSE "Queries")

-----------------------------------------------------------------------------
(* Claims about the database builder                                         *)

\* the caller gave a name
NameGiven == bgiven.some /\ bgiven.val # <<>>

\* C14: the name of a built database is the explicit name when one was
\* given; else the name of the repository when one was given; else the last
\* component of the database path when a path was given; else the file name
\* of the source directory.
C14_NamePriority ==
    bpc = "built" =>
        IF NameGiven THEN db.name = bgiven.val
        ELSE IF bld.repository.some THEN db.name = bld.repository.val.name
        ELSE IF bld.path.some
        THEN file_name(bld.path.val).some => db.name = file_name(bld.path.val).val
        ELSE IF bld.source.some
        THEN file_name(bld.source.val).some => db.name = file_name(bld.source.val).val
        ELSE TRUE

-----------------------------------------------------------------------------
(* Claims about the argument vectors                                         *)

\* an optional group of arguments: the flag and its value, when there is one
Group(flag, value) == IF value # <<>> THEN <<flag, value>> ELSE <<>>

\* the flags given when cond holds
Flags(cond, flags) == IF cond THEN flags ELSE <<>>

\* the argument vector C15 describes for a database d, an invoker c and a
\* handler h
ClaimedCreateArgs(d, c, h) ==
    <<<<"d","a","t","a","b","a","s","e">>, <<"c","r","e","a","t","e">>, <<"-","l">>, language(d.language), <<"-","s">>, d.source.val>>
    \o Group(<<"-","-","t","h","r","e","a","t","-","m","o","d","e","l","s">>, Join(h.threat_models, <<",">>))
    \o Group(<<"-","-","m","o","d","e","l","-","p","a","c","k","s">>, Join(h.model_packs, <<",">>))
    \o Group(<<"-","-","s","e","a","r","c","h","-","p","a","t","h">>, search_paths(c))
    \o Flags(h.overwrite, <<<<"-","-","o","v","e","r","w","r","i","t","e">>>>)
    \o Flags(h.summary, <<<<"-","-","p","r","i","n","t","-","d","i","a","g","n","o","s","t","i","c","s","-","s","u","m","m","a","r","y">>, <<"-","-","p","r","i","n","t","-","m","e","t","r","i","c","s","-","s","u","m","m","a","r","y">>>>)
    \o Flags(h.category.some, <<<<"-","-","s","a","r","i","f","-","c","a","t","e","g","o","r","y">>, h.category.val>>)
    \o <<d.path>>

\* C15: the argument vector of create is a function of the database and the
\* handler configuration: database create -l <language id> -s <source>, then
\* in this order the optional groups --threat-models, --model-packs,
\* --search-path, --overwrite, the two summary flags and --sarif-category,
\* then the database path; --overwrite is there exactly when overwrite() was
\* called, and with the default options the vector has exactly 9 elements.
C15_CreateArgs ==
    [][(last'.op = "create" /\ runs' = runs + 1) =>
        \A h \in Handlers(db) :
          (\E mkdirOk \in BOOLEAN, out \in RunOutcomes : Create(h, mkdirOk, out)) =>
              /\ lastArgs' = ClaimedCreateArgs(db, codeql, h)
              /\ h.overwrite <=> (\E i \in 1..Len(lastArgs') : lastArgs'[i] = <<"-","-","o","v","e","r","w","r","i","t","e">>)
              /\ (h = NewHandler(db) /\ codeql.search_path = <<>>) =>
                    lastArgs' = <<<<"d","a","t","a","b","a","s","e">>, <<"c","r","e","a","t","e">>, <<"-","l">>, language(db.language),
                                  <<"-","s">>, db.source.val,
                                  <<"-","-","p","r","i","n","t","-","d","i","a","g","n","o","s","t","i","c","s","-","s","u","m","m","a","r","y">>,
                                  <<"-","-","p","r","i","n","t","-","m","e","t","r","i","c","s","-","s","u","m","m","a","r","y">>, db.path>>]_vars

\* create ran with the default options for a JavaScript database, and the
\* invoker got the 9 arguments of the scenario
C15_Witness ==
    /\ last.op = "create" /\ runs = 1
    /\ Len(lastArgs) = 9
    /\ lastArgs[2] = <<"c","r","e","a","t","e">> /\ lastArgs[4] = <<"j","a","v","a","s","c","r","i","p","t">>
    /\ lastArgs[7] = <<"-","-","p","r","i","n","t","-","d","i","a","g","n","o","s","t","i","c","s","-","s","u","m","m","a","r","y">>
    /\ lastArgs[9] = db.path

\* the output the handler of a database defaults to
ClaimedDefaultOutput(d) ==
    IF d.repository.some
    THEN ResultsRoot \o <<"/">> \o language(d.language) \o <<"-">> \o d.repository.val.owner
             \o <<"-">> \o d.repository.val.name \o <<".","s","a","r","i","f">>
    ELSE ResultsRoot \o <<"/">> \o language(d.language) \o <<"-">> \o d.name \o <<".","s","a","r","i","f">>

\* C16: the argument vector of analyze is database analyze --output <out>
\* --format <fmt>, then --search-path <list> when there is a search path, then
\* the database path, then the rendered query specifier; with no override
\* <out> is <language>-<owner>-<repo>.sarif under the results root for a
\* database with a repository and <language>-<name>.sarif otherwise, <fmt> is
\* sarif-latest and the specifier is that of language_default(language).
C16_AnalyzeArgs ==
    [][(last'.op = "analyze" /\ runs' = runs + 1) =>
        \A h \in Handlers(db) :
          (\E out \in RunOutcomes : Analyze(h, out)) =>
              /\ lastArgs' =
                    <<<<"d","a","t","a","b","a","s","e">>, <<"a","n","a","l","y","z","e">>, <<"-","-","o","u","t","p","u","t">>, h.output.val,
                      <<"-","-","f","o","r","m","a","t">>, h.output_format>>
                    \o Group(<<"-","-","s","e","a","r","c","h","-","p","a","t","h">>, search_paths(codeql))
                    \o <<db.path, to_string(h.queries)>>
              /\ h = NewHandler(db) =>
                    /\ lastArgs'[4] = ClaimedDefaultOutput(db)
                    /\ lastArgs'[6] = <<"s","a","r","i","f","-","l","a","t","e","s","t">>
                    /\ lastArgs'[Len(lastArgs')] =
                          <<"c","o","d","e","q","l","/">> \o language(db.language) \o <<"-","q","u","e","r","i","e","s">>]_vars

\* analyze ran with the default options for a database with a repository and
\* an invoker with a search path
C16_Witness ==
    /\ last.op = "analyze" /\ runs >= 1
    /\ db.repository.some
    /\ Len(lastArgs) = 10
    /\ lastArgs[2] = <<"a","n","a","l","y","z","e">>
    /\ lastArgs[4] = ClaimedDefaultOutput(db)
    /\ lastArgs[7] = <<"-","-","s","e","a","r","c","h","-","p","a","t","h">>
    /\ lastArgs[9] = db.path

\* the suite file a suite name selects
ClaimedSuite(s) == IF s = DefaultSuite THEN CodeScanning ELSE s

\* C17: suite(s) turns each of security-extended, security-and-quality,
\* experimental, default and code-scanning into the specifier rendered
\* codeql/<language>-queries:codeql-suites/<language>-<suite>.qls, default and
\* code-scanning both selecting code-scanning, with <language> the language id
\* of the database; any other string is parsed as a query specifier.
C17_SuiteRewrite ==
    (qkind = "suite" /\ qpc \in {"rendered", "reparsed"}) =>
        LET l == language(db.language)
        IN  IF qin \in SuiteNames
            THEN qtext = <<"c","o","d","e","q","l","/">> \o l \o <<"-","q","u","e","r","i","e","s",":","c","o","d","e","q","l","-","s","u","i","t","e","s","/">> \o l
                            \o <<"-">> \o ClaimedSuite(qin) \o <<".","q","l","s">>
            ELSE parse(qin).ok => qres.val = parse(qin).val

\* suite("default") for a Kotlin database was rendered with the language id
\* java and the code-scanning suite
C17_Witness ==
    /\ qkind = "suite" /\ qpc = "rendered"
    /\ qin = DefaultSuite
    /\ db.language = Language("Kotlin")
    /\ qtext = <<"c","o","d","e","q","l","/","j","a","v","a","-","q","u","e","r","i","e","s",":","c","o","d","e","q","l","-","s","u","i","t","e","s","/","j","a","v","a","-","c","o","d","e","-","s","c","a","n","n","i","n","g",".","q","l","s">>

-----------------------------------------------------------------------------
(* Claims about language tokens                                              *)

\* the token is one of the aliases
IsAlias == ltoken.some /\ ltoken.val \in Aliases

\* an alias and the language id it stands for
AliasTargets ==
    {<<<<"c">>, <<"c","p","p">>>>, <<<<"c","+","+">>, <<"c","p","p">>>>, <<<<"c","#">>, <<"c","s","h","a","r","p">>>>, <<<<"g","o","l","a","n","g">>, <<"g","o">>>>,
     <<<<"k","o","t","l","i","n">>, <<"j","a","v","a">>>>, <<<<"j","s">>, <<"j","a","v","a","s","c","r","i","p","t">>>>, <<<<"t","y","p","e","s","c","r","i","p","t">>, <<"j","a","v","a","s","c","r","i","p","t">>>>,
     <<<<"t","s">>, <<"j","a","v","a","s","c","r","i","p","t">>>>, <<<<"p","y">>, <<"p","y","t","h","o","n">>>>}

\* C18 as stated: for every alias x the language of the id of the language of
\* x is the language of x, and an alias and its target have the same id.
C18_Idempotent ==
    (lpc = "again" /\ IsAlias) =>
        /\ lback = lang
        /\ \A p \in AliasTargets :
             ltoken.val = p[1] => language(lang) = language(LanguageFrom(p[2]))

\* C18: for every alias x the language of the id of the language of x has
\* the id of the language of x, and an alias and its target (kotlin and java,
\* for one) have the same language id.
C18_IdempotentOnIds ==
    (lpc = "again" /\ IsAlias) =>
        /\ language(lback) = language(lang)
        /\ \A p \in AliasTargets :
             ltoken.val = p[1] =>
                /\ language(lang) = p[2]
                /\ language(LanguageFrom(p[2])) = p[2]

\* kotlin became Kotlin, of id java, and java became Java, of id java
C18_Witness ==
    /\ lpc = "again"
    /\ ltoken = Some(<<"k","o","t","l","i","n">>)
    /\ lang = Language("Kotlin")
    /\ lback = Language("Java")
    /\ language(lback) = language(lang)

\* the token names no language: in lower case it is neither an alias nor a
\* secondary name
IsUnknown ==
    /\ ltoken.some
    /\ to_lowercase(ltoken.val) \notin Aliases \cup SecondaryNames

\* the values of CodeQLLanguage
Variants ==
    {"C", "Cpp", "CSharp", "Go", "Java", "JavaScript", "Kotlin", "Python",
     "TypeScript", "Swift", "Ruby", "Secondary", "Custom", "None"}

\* C19 as stated: a token that names no language becomes a Custom language
\* whose id is the token.
C19_UnknownIsCustom ==
    (lpc = "have" /\ IsUnknown) =>
        lang = Custom(ltoken.val) /\ language(lang) = ltoken.val

\* C19: the conversion of a token is total and never fails: every token
\* becomes a language, and one that names no language becomes the language
\* None, the id of which is none.
C19_UnknownIsNone ==
    lpc = "have" =>
        /\ lang.variant \in Variants
        /\ IsUnknown => (lang = LanguageNone /\ language(lang) = <<"n","o","n","e">>)

\* rust became the language None
C19_Witness ==
    /\ lpc = "have"
    /\ ltoken = Some(<<"r","u","s","t">>)
    /\ IsUnknown
    /\ lang = LanguageNone

-----------------------------------------------------------------------------
(* Claims about the invocation of the CLI                                    *)

\* text occurs in s
Occurs(text, s) ==
    \E i \in 1..(Len(s) - Len(text) + 1) : SubSeq(s, i, i + Len(text) - 1) = text

\* the child was waited for and left with a non-zero status
ExitedNonZero == rpc = "done" /\ rchild.spawn /\ ~rchild.broken /\ rchild.status # 0

\* C20: when the child leaves with a non-zero status, run returns the error of
\* the tool, and the text of that error carries what the child wrote to
\* stdout or stderr.
C20_ErrorCarriesOutput ==
    ExitedNonZero =>
        /\ ~rres.ok
        /\ rres.err = "CodeQLError"
        /\ (rchild.stdout # <<>> \/ rchild.stderr # <<>>) =>
              \E i \in 1..Len(rchild.stdout \o rchild.stderr) :
                  Occurs((rchild.stdout \o rchild.stderr)[i], rres.msg)

\* C21: when a registry token is configured, the child of this call, and it
\* alone, has CODEQL_REGISTRIES_AUTH set to the token; the environment of the
\* parent is the same after every step of run as before it; with no token
\* the environment of the child equals the parent's.
C21_TokenOnlyInChild ==
    [][/\ renv' = renv
       /\ (rpc = "start" /\ rpc' = "reading") =>
             rchildenv' = IF codeql.token.some
                          THEN EnvInsert(renv, REGISTRIES_AUTH, codeql.token.val)
                          ELSE renv]_vars

\* flag, followed by value, occurs in args
HasOption(args, flag, value) ==
    \E i \in 1..(Len(args) - 1) : args[i] = flag /\ args[i + 1] = value

\* C22: every create or analyze child started through an invoker with a
\* non-empty search path is given --search-path and the colon-joined list, and
\* through an invoker with additional packs --additional-packs and the
\* comma-joined list.
C22_GlobalOptions ==
    [][(runs' = runs + 1) =>
          /\ codeql.search_path # <<>> =>
                HasOption(lastArgs', <<"-","-","s","e","a","r","c","h","-","p","a","t","h">>, Join(codeql.search_path, <<":">>))
          /\ codeql.additional_packs # <<>> =>
                HasOption(lastArgs', <<"-","-","a","d","d","i","t","i","o","n","a","l","-","p","a","c","k","s">>,
                          Join(codeql.additional_packs, <<",">>))]_vars

-----------------------------------------------------------------------------
(* Claims about the database value                                           *)

\* the step is a successful reload: it changes config and nothing else
ReloadStep ==
    /\ last' = Op("reload", Done)
    /\ db' = [db EXCEPT !.config = db'.config]

\* the step is set_repository: it changes repository and name, nothing else
SetRepositoryStep ==
    /\ last'.op = "set_repository"
    /\ db' = [db EXCEPT !.repository = db'.repository, !.name = db'.name]

\* C23 as stated: a database is built with config None, and after the build
\* only a successful reload changes any of its fields.
C23_OnlyReloadMutates ==
    /\ db.config = None
    /\ [][db' # db => ReloadStep]_vars

\* C23: a database built without config() is built with config None; after
\* the build config changes only in a successful reload, create and analyze
\* leave every field unchanged, and the one other change to the database is
\* set_repository's, to repository and name.
C23_ReloadOrSetRepository ==
    /\ bld.config = None => db.config = None
    /\ [][/\ db' # db => ReloadStep \/ SetRepositoryStep
          /\ db'.config # db.config => ReloadStep
          /\ last'.op \in {"create", "analyze"} => db' = db]_vars

C23_Witness ==
    /\ bld.config = None
    /\ db.config.some
    /\ db.repository.some
    /\ last = Op("reload", Done)
    /\ runs > 0

\* C24: while config is absent, version is "0.0.0", creation_time and
\* created_at are None and lines_of_code is 0; a real value is returned only
\* when config is populated.
C24_Sentinels ==
    /\ db.config = None =>
          /\ version(db) = <<"0",".","0",".","0">>
          /\ creation_time(db) = None
          /\ created_at(db) = None
          /\ lines_of_code(db) = 0
    /\ (version(db) # <<"0",".","0",".","0">> \/ creation_time(db).some \/ created_at(db).some
            \/ lines_of_code(db) # 0) => db.config.some

\* the database was created, its file on disk holds real values, and its
\* config is not loaded
C24_Witness ==
    /\ db.config = None
    /\ last = Op("create", Done)
    /\ cfgFile.state = "ok"
    /\ cfgFile.content[1].baseline_lines_of_code > 0

\* C25: a database built without a call of path() has the path
\* <base>/<owner>/<repo>/<language> when a repository is attached, and
\* otherwise <base>/<language>-<name>, with <name> the name of the built
\* database and <base> the databases root.
C25_DefaultPath ==
    (bpc = "built" /\ bld.path = None) =>
        db.path = IF db.repository.some
                  THEN DatabasesRoot \o <<"/">> \o db.repository.val.owner \o <<"/">>
                          \o db.repository.val.name \o <<"/">> \o language(db.language)
                  ELSE DatabasesRoot \o <<"/">> \o language(db.language) \o <<"-">> \o db.name

-----------------------------------------------------------------------------
(* Claims about the full pipeline                                            *)

\* C26: in every run of scan the analyze child is started after create has
\* succeeded and the config has been reloaded from disk, in that order, so
\* never on a database whose config is unloaded.
C26_ReloadBeforeAnalyze ==
    [][(last'.op = "analyze" /\ runs' = runs + 1) =>
          /\ sevents = <<"create", "reload">>
          /\ db.config.some]_vars

\* the call of run has started
Running == rpc \in {"start", "reading", "waiting", "done"}

\* the child was spawned, its stdout was read to the end and its status
\* was obtained
Waited == rpc = "done" /\ rchild.spawn /\ ~rchild.broken

\* C27: a call of run spawns one child and no more; it waits for the status
\* only after stdout has been read to its end; every line read is buffered,
\* with the output shown or hidden; and the result is Ok of the buffered
\* lines joined by "\n" exactly when the status is zero, an error otherwise.
C27_RunOnce ==
    Running =>
        /\ rspawns \in {0, 1}
        /\ (rpc \in {"reading", "waiting"} \/ (rpc = "done" /\ rchild.spawn)) => rspawns = 1
        /\ \A i \in 1..Len(rlines) : i <= Len(rchild.stdout) /\ rlines[i] = rchild.stdout[i]
        /\ rpc = "waiting" => rlines = rchild.stdout
        /\ Waited =>
              /\ rlines = rchild.stdout
              /\ rres.ok <=> rchild.status = 0
              /\ rres.ok => rres.val = Join(rchild.stdout, <<"\n">>)
              /\ ~rres.ok => rres.err = "CodeQLError"
        /\ (rpc = "done" /\ rres.ok) => Waited

\* a run with the output hidden whose child wrote two lines and left with 0
C27_Witness ==
    /\ rpc = "done"
    /\ rres.ok
    /\ ~codeql.showoutput
    /\ rprinted = <<>>
    /\ Len(rchild.stdout) = 2
    /\ rres.val = rchild.stdout[1] \o <<"\n">> \o rchild.stdout[2]

\* C28: analyze on a database that was never created, with no
\* codeql-database.yml under its path, is refused: it returns an error and
\* starts no child.
C28_AnalyzeNeedsCreated ==
    [][(last'.op = "analyze" /\ ~validate(cfgFile)) =>
          /\ runs' = runs
          /\ ~last'.res.ok]_vars

\* C29: the last argument of every analyze child, the rendered query
\* specifier of a handler configured through queries(s), is a non-empty
\* string, also when s is empty or a bare token that is no language id.
C29_SpecifierNotEmpty ==
    [][(last'.op = "analyze" /\ runs' = runs + 1) =>
          /\ lastArgs' # <<>>
          /\ lastArgs'[Len(lastArgs')] # <<>>]_vars

\* C30: from any builder, name(n) then repository(r) and repository(r) then
\* name(n) build databases of the same name, and that name is n, for every
\* non-empty name n and repository r.
C30_NameOrderIndependent ==
    bpc = "building" =>
        \A n \in BuilderNames \ {<<>>}, r \in BuilderRepositories :
            LET nameFirst == build(builder_repository(builder_name(bld, n), r))
                repoFirst == build(builder_name(builder_repository(bld, r), n))
            IN  /\ nameFirst.name = repoFirst.name
                /\ nameFirst.name = n

=============================================================================
